---------------------------- MODULE Spec2Model ----------------------------
(***************************************************************************)
(* ContextWarV4 (src/contracts/ContextWarV4.sol) as a state machine.       *)
(*                                                                         *)
(* Every external function of the contract is one action.  A call that     *)
(* reverts leaves the contract storage as it was (EVM semantics); the      *)
(* ghost variable `last` records which call was made, with which inputs,   *)
(* how it ended and what it transferred, so that properties can speak      *)
(* about accepted and rejected calls.                                      *)
(*                                                                         *)
(* Amounts are exact integers (USDC has 6 decimals: 1000000 = 1 USDC).     *)
(* uint256 arithmetic is checked (Solidity 0.8): an underflow is the       *)
(* error "Panic"; the amounts of the model stay far below 2^256, so an     *)
(* overflow cannot happen.                                                 *)
(***************************************************************************)
EXTENDS Integers, Sequences, FiniteSets, TLC

\* ─── Constants of the contract ──────────────────────────────────────────
NUM_SLOTS == 12
MAX_WORD_LENGTH == 22
MAX_RAKE_BPS == 2000
EMERGENCY_TIMEOUT == 86400
ANTI_SNIPE_WINDOW == 60
ANTI_SNIPE_EXTENSION == 60
MIN_AUTO_START == 1000000
BPS_DENOMINATOR == 10000
DefaultMaxSlots == 6

\* ─── Bounds of the model ────────────────────────────────────────────────
\* highest round id the model creates
MaxRounds == 2
\* accepted bids, over all rounds
MaxBids == 3
\* number of 60 s steps the clock makes (besides one 24 h jump)
MaxTicks == 2
\* calls of the owner's configuration functions
MaxConfigCalls == 1
\* wei the contract receives in total
MaxEth == 2
\* accepted fund calls
MaxFunds == 1

\* ─── Addresses ──────────────────────────────────────────────────────────
ZERO == "0x0"
OWNER == "owner"
ORACLE == "oracle"
Players == {"A", "B"}
Callers == Players \cup {OWNER, ORACLE}

\* ─── Words: sequences of bytes ──────────────────────────────────────────
SPACE == 32
WordA == <<97>>
WordB == <<98>>
WordEmptyStr == <<>>
WordWithSpace == <<97, SPACE, 98>>
WordLong == [i \in 1..(MAX_WORD_LENGTH + 1) |-> 97]

VARIABLES
    now,                \* block.timestamp
    paused,             \* Pausable
    minBid, oracleAddress, roundDuration, rakeBps, splitBps, maxSlotsPerPlayer,
    accumulatedRake, nextPrizePool, pendingEth,
    currentRound,       \* struct Round
    slots,              \* WordSlot[12]
    cumulativeBids,     \* round -> slot -> address -> amount
    totalSpent,         \* round -> address -> amount
    playerSlotCount,    \* round -> address -> count
    roundPlayers,       \* round -> sequence of addresses (_roundPlayers)
    isPlayer,           \* round -> set of addresses (_isPlayer)
    unclaimedEth,       \* address -> wei
    usdcBalance,        \* USDC the token contract holds for this contract
    ethBalance,         \* address(this).balance
    last,               \* ghost: the last call and its outcome
    resolutions,        \* ghost: round -> number of successful resolutions
    bidCount,           \* ghost: number of accepted bids
    fundCalls,          \* ghost: number of accepted fund calls
    configCalls         \* ghost: number of configuration calls made

storage == <<paused, minBid, oracleAddress, roundDuration, rakeBps, splitBps,
             maxSlotsPerPlayer, accumulatedRake, nextPrizePool, pendingEth,
             currentRound, slots, cumulativeBids, totalSpent, playerSlotCount,
             roundPlayers, isPlayer, unclaimedEth, usdcBalance, ethBalance>>

ghosts == <<last, resolutions, bidCount, fundCalls, configCalls>>

vars == <<now, storage, ghosts>>

RoundIds == 1..(MaxRounds + 1)
SlotIds == 0..(NUM_SLOTS - 1)

\* ─── Arithmetic ─────────────────────────────────────────────────────────

RECURSIVE MulDivRem(_, _, _)
\* <<q, r>> with a * b = q * c + r and 0 <= r < c, for 0 <= a < c: the
\* product is built bit by bit so that no intermediate value exceeds 3 * c
\* (TLC's integers have 32 bits, the contract's 256).
MulDivRem(a, b, c) ==
    IF b = 0 THEN <<0, 0>>
    ELSE LET h == MulDivRem(a, b \div 2, c)
             t == 2 * h[2] + (b % 2) * a
         IN  <<2 * h[1] + (t \div c), t % c>>

\* (a * b) / c of the contract: the floor of the exact quotient
MulDiv(a, b, c) == (a \div c) * b + MulDivRem(a % c, b, c)[1]

\* sum of a sequence of amounts
RECURSIVE SumSeq(_)
SumSeq(s) == IF s = <<>> THEN 0 ELSE Head(s) + SumSeq(Tail(s))


\* ─── The contract storage as one value ──────────────────────────────────

S == [paused |-> paused, minBid |-> minBid, oracleAddress |-> oracleAddress,
      roundDuration |-> roundDuration, rakeBps |-> rakeBps, splitBps |-> splitBps,
      maxSlotsPerPlayer |-> maxSlotsPerPlayer, accumulatedRake |-> accumulatedRake,
      nextPrizePool |-> nextPrizePool, pendingEth |-> pendingEth,
      currentRound |-> currentRound, slots |-> slots,
      cumulativeBids |-> cumulativeBids, totalSpent |-> totalSpent,
      playerSlotCount |-> playerSlotCount, roundPlayers |-> roundPlayers,
      isPlayer |-> isPlayer, unclaimedEth |-> unclaimedEth,
      usdcBalance |-> usdcBalance, ethBalance |-> ethBalance]

EmptySlot == [word |-> <<>>, owner |-> ZERO, highestTotal |-> 0]

NoRound == [id |-> 0, createdAt |-> 0, startedAt |-> 0, endTime |-> 0,
            prizePool |-> 0, ethPrizePool |-> 0, resolved |-> FALSE]

Accounts == Players \cup {OWNER}
NoPay == [a \in Accounts |-> 0]

\* What a call returns to the model: how it ended, the storage it leaves,
\* and what it moved out of the contract.
Outcome(err, s, usdcOut, ethOut, ethParked, fee) ==
    [err |-> err, s |-> s, usdcOut |-> usdcOut, ethOut |-> ethOut,
     ethParked |-> ethParked, fee |-> fee]

\* Mutant of Revert: the rejected call keeps what it had written so far.
RevertKeepsWrites(pre, cur, err) == Outcome(err, cur, NoPay, NoPay, NoPay, 0)

\* A revert: the storage of before the call, nothing moved.
Revert(pre, cur, err) == Outcome(err, pre, NoPay, NoPay, NoPay, 0)

Done(s) == Outcome("ok", s, NoPay, NoPay, NoPay, 0)

\* ─── Modifiers ──────────────────────────────────────────────────────────

\* Mutant of roundOpen: a bid at exactly endTime is let through.
roundOpenAtEnd(s, t) ==
    IF s.currentRound.id = 0 THEN "NoActiveRound"
    ELSE IF s.currentRound.resolved THEN "RoundAlreadyResolved"
    ELSE IF s.currentRound.startedAt > 0 /\ t > s.currentRound.endTime
         THEN "RoundNotActive"
    ELSE "ok"

roundOpen(s, t) ==
    IF s.currentRound.id = 0 THEN "NoActiveRound"
    ELSE IF s.currentRound.resolved THEN "RoundAlreadyResolved"
    ELSE IF s.currentRound.startedAt > 0 /\ t >= s.currentRound.endTime
         THEN "RoundNotActive"
    ELSE "ok"

whenNotPaused(s) == IF s.paused THEN "EnforcedPause" ELSE "ok"

onlyOracle(s, sender) == IF sender # s.oracleAddress THEN "NotOracle" ELSE "ok"

onlyOwner(sender) == IF sender # OWNER THEN "OwnableUnauthorizedAccount" ELSE "ok"

\* ─── bid ────────────────────────────────────────────────────────────────

\* Mutant of _validateWord: every ASCII whitespace byte is turned away.
_validateWordAnyWhitespace(wordBytes) ==
    IF \E i \in 1..Len(wordBytes) : wordBytes[i] \in {9, 10, 13, SPACE}
    THEN "WordContainsSpace" ELSE "ok"

\* Only blocks spaces (0x20). Everything else is allowed.
_validateWord(wordBytes) ==
    IF \E i \in 1..Len(wordBytes) : wordBytes[i] = SPACE
    THEN "WordContainsSpace" ELSE "ok"

BidArgsCheck(s, slotIndex, word, amount) ==
    IF slotIndex >= NUM_SLOTS THEN "InvalidSlot"
    ELSE IF amount < s.minBid THEN "BidTooLow"
    ELSE IF Len(word) = 0 THEN "WordEmpty"
    ELSE IF Len(word) > MAX_WORD_LENGTH THEN "WordTooLong"
    ELSE _validateWord(word)

\* Mutant of StartClock: every bid starts the clock again.
StartClockEveryBid(s, t) ==
    [s EXCEPT !.currentRound.startedAt = t,
              !.currentRound.endTime = t + s.roundDuration]

\* Start clock on first bid
StartClock(s, t) ==
    IF s.currentRound.startedAt = 0
    THEN [s EXCEPT !.currentRound.startedAt = t,
                   !.currentRound.endTime = t + s.roundDuration]
    ELSE s

\* Mutant of InSnipeWindow: the bound of the window is excluded.
InSnipeWindowStrict(endTime, t) == endTime - t < ANTI_SNIPE_WINDOW

InSnipeWindow(endTime, t) == endTime - t <= ANTI_SNIPE_WINDOW

\* Mutant of AntiSnipe: a round is extended once only.
AntiSnipeOnce(s, t) ==
    IF /\ InSnipeWindow(s.currentRound.endTime, t)
       /\ s.currentRound.endTime
             < s.currentRound.startedAt + s.roundDuration + ANTI_SNIPE_EXTENSION
    THEN [s EXCEPT !.currentRound.endTime = @ + ANTI_SNIPE_EXTENSION]
    ELSE s

\* Anti-snipe: extend if bid in last minute
AntiSnipe(s, t) ==
    IF InSnipeWindow(s.currentRound.endTime, t)
    THEN [s EXCEPT !.currentRound.endTime = @ + ANTI_SNIPE_EXTENSION]
    ELSE s

\* Mutant of AddCumulative: the total spent is not updated.
AddCumulativeSlotOnly(s, sender, slotIndex, amount) ==
    LET roundId == s.currentRound.id
    IN  [s EXCEPT !.cumulativeBids[roundId][slotIndex][sender] = @ + amount]

\* Mutant of AddCumulative: the bid replaces the running total of the slot.
AddCumulativeOverwrites(s, sender, slotIndex, amount) ==
    LET roundId == s.currentRound.id
    IN  [s EXCEPT !.cumulativeBids[roundId][slotIndex][sender] = amount,
                  !.totalSpent[roundId][sender] = @ + amount]

\* Update cumulative bids
AddCumulative(s, sender, slotIndex, amount) ==
    LET roundId == s.currentRound.id
    IN  [s EXCEPT !.cumulativeBids[roundId][slotIndex][sender] = @ + amount,
                  !.totalSpent[roundId][sender] = @ + amount]

\* Mutant of ToCurrentPot: the quotient is rounded up.
ToCurrentPotRoundedUp(amount, bps) ==
    MulDiv(amount, bps, BPS_DENOMINATOR)
    + (IF MulDivRem(amount % BPS_DENOMINATOR, bps, BPS_DENOMINATOR)[2] > 0 THEN 1 ELSE 0)

\* (amount * splitBps) / 10000
ToCurrentPot(amount, bps) == MulDiv(amount, bps, BPS_DENOMINATOR)

\* Bid split: current pot vs next pot
SplitBid(s, amount) ==
    LET toCurrentPot == ToCurrentPot(amount, s.splitBps)
        toNextPot == amount - toCurrentPot
    IN  [s EXCEPT !.currentRound.prizePool = @ + toCurrentPot,
                  !.nextPrizePool = @ + toNextPot]

\* Mutant of TrackPlayer: a new bidder is put at the head of the list.
TrackPlayerAtHead(s, sender) ==
    LET roundId == s.currentRound.id
    IN  IF sender \notin s.isPlayer[roundId]
        THEN [s EXCEPT !.isPlayer[roundId] = @ \cup {sender},
                       !.roundPlayers[roundId] = <<sender>> \o @]
        ELSE s

\* Mutant of TrackPlayer: every bid registers its bidder again.
TrackPlayerEveryBid(s, sender) ==
    LET roundId == s.currentRound.id
    IN  [s EXCEPT !.isPlayer[roundId] = @ \cup {sender},
                  !.roundPlayers[roundId] = Append(@, sender)]

\* Track player
TrackPlayer(s, sender) ==
    LET roundId == s.currentRound.id
    IN  IF sender \notin s.isPlayer[roundId]
        THEN [s EXCEPT !.isPlayer[roundId] = @ \cup {sender},
                       !.roundPlayers[roundId] = Append(@, sender)]
        ELSE s

\* Mutant of IsNewHighest: a tie takes the slot.
IsNewHighestOrTie(newCumulative, highestTotal) == newCumulative >= highestTotal

\* Mutant of IsNewHighest: any different total takes the slot.
IsNewHighestOrLower(newCumulative, highestTotal) == newCumulative # highestTotal

IsNewHighest(newCumulative, highestTotal) == newCumulative > highestTotal

\* Mutant of CapReached: off by one, the cap may be exceeded by one slot.
CapReachedOffByOne(count, cap) == count > cap

CapReached(count, cap) == count >= cap

\* Mutant of OwnerChanges: the cap is enforced on a slot of one's own too.
OwnerChangesAlways(previousOwner, sender) == TRUE

\* previousOwner != msg.sender
OwnerChanges(previousOwner, sender) == previousOwner # sender

\* Mutant of UpdateSlot: at the cap the bid is kept and the slot left alone.
UpdateSlotSkipsAtCap(s, sender, slotIndex, word) ==
    LET roundId == s.currentRound.id
        newCumulative == s.cumulativeBids[roundId][slotIndex][sender]
        previousOwner == s.slots[slotIndex].owner
        taken == [s EXCEPT !.slots[slotIndex] =
                     [word |-> word, owner |-> sender, highestTotal |-> newCumulative]]
    IN  IF ~IsNewHighest(newCumulative, s.slots[slotIndex].highestTotal)
        THEN <<"ok", s>>
        ELSE IF ~OwnerChanges(previousOwner, sender) THEN <<"ok", taken>>
        ELSE IF CapReached(s.playerSlotCount[roundId][sender], s.maxSlotsPerPlayer)
             THEN <<"ok", s>>
        ELSE <<"ok",
               [taken EXCEPT
                  !.playerSlotCount[roundId] =
                      [a \in Players |->
                          IF a = sender THEN @[a] + 1
                          ELSE IF a = previousOwner THEN @[a] - 1
                          ELSE @[a]]]>>

\* Mutant of UpdateSlot: the previous owner's count is not freed.
UpdateSlotKeepsCount(s, sender, slotIndex, word) ==
    LET roundId == s.currentRound.id
        newCumulative == s.cumulativeBids[roundId][slotIndex][sender]
        previousOwner == s.slots[slotIndex].owner
        taken == [s EXCEPT !.slots[slotIndex] =
                     [word |-> word, owner |-> sender, highestTotal |-> newCumulative]]
    IN  IF ~IsNewHighest(newCumulative, s.slots[slotIndex].highestTotal)
        THEN <<"ok", s>>
        ELSE IF ~OwnerChanges(previousOwner, sender) THEN <<"ok", taken>>
        ELSE IF CapReached(s.playerSlotCount[roundId][sender], s.maxSlotsPerPlayer)
             THEN <<"SlotCapReached", s>>
        ELSE <<"ok", [taken EXCEPT !.playerSlotCount[roundId][sender] = @ + 1]>>

\* Update slot if new highest bidder; the result is <<error, storage>>
UpdateSlot(s, sender, slotIndex, word) ==
    LET roundId == s.currentRound.id
        newCumulative == s.cumulativeBids[roundId][slotIndex][sender]
        previousOwner == s.slots[slotIndex].owner
        taken == [s EXCEPT !.slots[slotIndex] =
                     [word |-> word, owner |-> sender, highestTotal |-> newCumulative]]
    IN  IF ~IsNewHighest(newCumulative, s.slots[slotIndex].highestTotal)
        THEN <<"ok", s>>
        ELSE IF ~OwnerChanges(previousOwner, sender) THEN <<"ok", taken>>
        ELSE IF CapReached(s.playerSlotCount[roundId][sender], s.maxSlotsPerPlayer)
             THEN <<"SlotCapReached", s>>
        ELSE IF previousOwner # ZERO /\ s.playerSlotCount[roundId][previousOwner] = 0
             THEN <<"Panic", s>>
        ELSE <<"ok",
               [taken EXCEPT
                  !.playerSlotCount[roundId] =
                      [a \in Players |->
                          IF a = sender THEN @[a] + 1
                          ELSE IF a = previousOwner THEN @[a] - 1
                          ELSE @[a]]]>>

\* Transfer USDC last: safeTransferFrom(msg.sender, this, amount)
Deposit(s, amount, depositOk) ==
    IF depositOk THEN <<"ok", [s EXCEPT !.usdcBalance = @ + amount]>>
    ELSE <<"TransferFailed", s>>

bid(s, t, sender, slotIndex, word, amount, depositOk) ==
    LET s1 == StartClock(s, t)
        s2 == AntiSnipe(s1, t)
        s3 == AddCumulative(s2, sender, slotIndex, amount)
        s4 == SplitBid(s3, amount)
        s5 == TrackPlayer(s4, sender)
        u  == UpdateSlot(s5, sender, slotIndex, word)
        d  == Deposit(u[2], amount, depositOk)
    IN  IF roundOpen(s, t) # "ok" THEN Revert(s, s, roundOpen(s, t))
        ELSE IF whenNotPaused(s) # "ok" THEN Revert(s, s, whenNotPaused(s))
        ELSE IF BidArgsCheck(s, slotIndex, word, amount) # "ok"
             THEN Revert(s, s, BidArgsCheck(s, slotIndex, word, amount))
        ELSE IF s1.currentRound.endTime < t THEN Revert(s, s1, "Panic")
        ELSE IF u[1] # "ok" THEN Revert(s, u[2], u[1])
        ELSE IF d[1] # "ok" THEN Revert(s, d[2], d[1])
        ELSE Done(d[2])

\* ─── Round creation and auto-advance ────────────────────────────────────

\* Mutant of _createRound: the id advances by two.
_createRoundSkipsId(s, t, usdcPrize, ethPrize) ==
    [s EXCEPT !.slots = [i \in SlotIds |-> EmptySlot],
              !.currentRound = [id |-> s.currentRound.id + 2,
                                createdAt |-> t,
                                startedAt |-> 0,
                                endTime |-> 0,
                                prizePool |-> usdcPrize,
                                ethPrizePool |-> ethPrize,
                                resolved |-> FALSE]]

\* Mutant of _createRound: the new round takes the id of the resolved one.
_createRoundReusesId(s, t, usdcPrize, ethPrize) ==
    [s EXCEPT !.slots = [i \in SlotIds |-> EmptySlot],
              !.currentRound = [id |-> IF s.currentRound.id = 0 THEN 1
                                       ELSE s.currentRound.id,
                                createdAt |-> t,
                                startedAt |-> 0,
                                endTime |-> 0,
                                prizePool |-> usdcPrize,
                                ethPrizePool |-> ethPrize,
                                resolved |-> FALSE]]

\* Mutant of _createRound: the clock of the new round runs from its creation.
_createRoundRunning(s, t, usdcPrize, ethPrize) ==
    [s EXCEPT !.slots = [i \in SlotIds |-> EmptySlot],
              !.currentRound = [id |-> s.currentRound.id + 1,
                                createdAt |-> t,
                                startedAt |-> t,
                                endTime |-> t + s.roundDuration,
                                prizePool |-> usdcPrize,
                                ethPrizePool |-> ethPrize,
                                resolved |-> FALSE]]

_createRound(s, t, usdcPrize, ethPrize) ==
    [s EXCEPT !.slots = [i \in SlotIds |-> EmptySlot],
              !.currentRound = [id |-> s.currentRound.id + 1,
                                createdAt |-> t,
                                startedAt |-> 0,
                                endTime |-> 0,
                                prizePool |-> usdcPrize,
                                ethPrizePool |-> ethPrize,
                                resolved |-> FALSE]]

\* Mutant of AutoStartReached: exactly MIN_AUTO_START does not start a round.
AutoStartReachedStrict(pool) == pool > MIN_AUTO_START

AutoStartReached(pool) == pool >= MIN_AUTO_START

\* Mutant of _autoAdvance: the next pool is not emptied into the new round.
_autoAdvanceKeepsNext(s, t) ==
    IF AutoStartReached(s.nextPrizePool)
    THEN [_createRound(s, t, s.nextPrizePool, s.pendingEth) EXCEPT !.pendingEth = 0]
    ELSE s

_autoAdvance(s, t) ==
    IF AutoStartReached(s.nextPrizePool)
    THEN [_createRound([s EXCEPT !.nextPrizePool = 0], t, s.nextPrizePool, s.pendingEth)
            EXCEPT !.pendingEth = 0]
    ELSE s

\* Mutant of startRound: an unresolved current round is replaced.
startRoundOverUnresolved(s, t, sender, topUp, depositOk) ==
    LET prize == s.nextPrizePool + topUp
        s1 == [s EXCEPT !.usdcBalance = @ + topUp]
        s2 == [s1 EXCEPT !.nextPrizePool = 0]
        s3 == [_createRound(s2, t, prize, s.pendingEth) EXCEPT !.pendingEth = 0]
    IN  IF whenNotPaused(s) # "ok" THEN Revert(s, s, whenNotPaused(s))
        ELSE IF topUp > 0 /\ ~depositOk THEN Revert(s, s, "TransferFailed")
        ELSE IF prize = 0 THEN Revert(s, s1, "EmptyPrizePool")
        ELSE Done(s3)

startRound(s, t, sender, topUp, depositOk) ==
    LET prize == s.nextPrizePool + topUp
        s1 == [s EXCEPT !.usdcBalance = @ + topUp]
        s2 == [s1 EXCEPT !.nextPrizePool = 0]
        s3 == [_createRound(s2, t, prize, s.pendingEth) EXCEPT !.pendingEth = 0]
    IN  IF whenNotPaused(s) # "ok" THEN Revert(s, s, whenNotPaused(s))
        ELSE IF s.currentRound.id > 0 /\ ~s.currentRound.resolved
             THEN Revert(s, s, "PreviousRoundNotResolved")
        ELSE IF topUp > 0 /\ ~depositOk THEN Revert(s, s, "TransferFailed")
        ELSE IF prize = 0 THEN Revert(s, s1, "EmptyPrizePool")
        ELSE Done(s3)

\* Mutant of fund: an ended round is still funded.
fundAfterEnd(s, t, sender, amount, depositOk) ==
    IF whenNotPaused(s) # "ok" THEN Revert(s, s, whenNotPaused(s))
    ELSE IF s.currentRound.id = 0 \/ s.currentRound.resolved
         THEN Revert(s, s, "NoActiveRound")
    ELSE IF ~depositOk THEN Revert(s, s, "TransferFailed")
    ELSE Done([s EXCEPT !.usdcBalance = @ + amount,
                        !.currentRound.prizePool = @ + amount])

fund(s, t, sender, amount, depositOk) ==
    IF whenNotPaused(s) # "ok" THEN Revert(s, s, whenNotPaused(s))
    ELSE IF s.currentRound.id = 0 \/ s.currentRound.resolved
         THEN Revert(s, s, "NoActiveRound")
    ELSE IF s.currentRound.startedAt > 0 /\ t >= s.currentRound.endTime
         THEN Revert(s, s, "RoundEnded")
    ELSE IF ~depositOk THEN Revert(s, s, "TransferFailed")
    ELSE Done([s EXCEPT !.usdcBalance = @ + amount,
                        !.currentRound.prizePool = @ + amount])

\* receive(): ETH goes to the current round or to the pending pool
receive(s, value) ==
    IF s.currentRound.id > 0 /\ ~s.currentRound.resolved
    THEN Done([s EXCEPT !.ethBalance = @ + value,
                        !.currentRound.ethPrizePool = @ + value])
    ELSE Done([s EXCEPT !.ethBalance = @ + value, !.pendingEth = @ + value])

\* ─── Resolution ─────────────────────────────────────────────────────────

\* Mutant of ResolvedCheck: the resolved flag is not looked at.
ResolvedCheckMissing(s) == "ok"

ResolvedCheck(s) == IF s.currentRound.resolved THEN "RoundAlreadyResolved" ELSE "ok"

\* Mutant of _validateResolution: a pending round is not turned away.
_validateResolutionOfPending(s, t) ==
    IF s.currentRound.id = 0 THEN "NoActiveRound"
    ELSE IF ResolvedCheck(s) # "ok" THEN ResolvedCheck(s)
    ELSE IF t < s.currentRound.endTime THEN "RoundStillActive"
    ELSE "ok"

_validateResolution(s, t) ==
    IF s.currentRound.id = 0 THEN "NoActiveRound"
    ELSE IF ResolvedCheck(s) # "ok" THEN ResolvedCheck(s)
    ELSE IF s.currentRound.startedAt = 0 THEN "RoundNotStarted"
    ELSE IF t < s.currentRound.endTime THEN "RoundStillActive"
    ELSE "ok"

Rake(prizePool, bps) == MulDiv(prizePool, bps, BPS_DENOMINATOR)

\* Mutant of Distributable: the rake is not deducted.
DistributableNoRake(prizePool, rake) == prizePool

Distributable(prizePool, rake) == prizePool - rake

\* usdc.safeTransfer(to, amount): reverts when the token refuses the
\* transfer; the result is <<error, outcome>>
SafeTransfer(o, to, amount, usdcFail) ==
    IF to \in usdcFail \/ o.s.usdcBalance < amount
    THEN <<"TransferFailed", o>>
    ELSE <<"ok", [o EXCEPT !.s.usdcBalance = @ - amount,
                           !.usdcOut[to] = @ + amount]>>

\* (bool ok, ) = to.call{value: amount}(""); if (!ok) unclaimedEth[to] += amount
SendEthOrPark(o, to, amount, ethFail) ==
    IF to \in ethFail \/ o.s.ethBalance < amount
    THEN [o EXCEPT !.s.unclaimedEth[to] = @ + amount, !.ethParked[to] = @ + amount]
    ELSE [o EXCEPT !.s.ethBalance = @ - amount, !.ethOut[to] = @ + amount]

RECURSIVE PayUsdcFrom(_, _, _, _, _)
\* for (i ...) if (usdcAmounts[i] > 0) usdc.safeTransfer(winners[i], usdcAmounts[i])
PayUsdcFrom(i, o, winners, usdcAmounts, usdcFail) ==
    IF i > Len(winners) THEN <<"ok", o>>
    ELSE IF usdcAmounts[i] = 0
         THEN PayUsdcFrom(i + 1, o, winners, usdcAmounts, usdcFail)
    ELSE LET r == SafeTransfer(o, winners[i], usdcAmounts[i], usdcFail)
         IN  IF r[1] # "ok" THEN r
             ELSE PayUsdcFrom(i + 1, r[2], winners, usdcAmounts, usdcFail)

RECURSIVE PayEthFrom(_, _, _, _, _)
\* for (i ...) if (ethAmounts[i] > 0) send, or park in unclaimedEth
PayEthFrom(i, o, winners, ethAmounts, ethFail) ==
    IF i > Len(winners) THEN o
    ELSE IF ethAmounts[i] = 0
         THEN PayEthFrom(i + 1, o, winners, ethAmounts, ethFail)
    ELSE PayEthFrom(i + 1, SendEthOrPark(o, winners[i], ethAmounts[i], ethFail),
                    winners, ethAmounts, ethFail)

\* Mutant of AllocationMatches: an allocation below the pool is accepted.
AllocationCovered(total, pool) == total <= pool

\* usdcTotal != distributable, ethTotal != currentRound.ethPrizePool
AllocationMatches(total, pool) == total = pool

\* Finalize + auto-advance
Finalize(o, t) == [o EXCEPT !.s = _autoAdvance([o.s EXCEPT !.currentRound.resolved = TRUE], t)]

resolveRound(s, t, sender, winners, usdcAmounts, ethAmounts, usdcFail, ethFail) ==
    LET roundId == s.currentRound.id
        rake == Rake(s.currentRound.prizePool, s.rakeBps)
        distributable == Distributable(s.currentRound.prizePool, rake)
        s1 == [s EXCEPT !.accumulatedRake = @ + rake]
        o1 == [Done(s1) EXCEPT !.fee = rake]
        p  == PayUsdcFrom(1, o1, winners, usdcAmounts, usdcFail)
        hasEth == s.currentRound.ethPrizePool > 0
        o2 == IF hasEth THEN PayEthFrom(1, p[2], winners, ethAmounts, ethFail) ELSE p[2]
    IN  IF onlyOracle(s, sender) # "ok" THEN Revert(s, s, onlyOracle(s, sender))
        ELSE IF _validateResolution(s, t) # "ok"
             THEN Revert(s, s, _validateResolution(s, t))
        ELSE IF Len(s.roundPlayers[roundId]) < 2 THEN Revert(s, s, "NeedMorePlayers")
        ELSE IF Len(winners) # Len(usdcAmounts) THEN Revert(s, s1, "AllocationMismatch")
        ELSE IF ~AllocationMatches(SumSeq(usdcAmounts), distributable)
             THEN Revert(s, s1, "AllocationMismatch")
        ELSE IF p[1] # "ok" THEN Revert(s, p[2].s, p[1])
        ELSE IF hasEth /\ Len(ethAmounts) # Len(winners)
             THEN Revert(s, p[2].s, "AllocationMismatch")
        ELSE IF hasEth /\ ~AllocationMatches(SumSeq(ethAmounts),
                                              s.currentRound.ethPrizePool)
             THEN Revert(s, p[2].s, "AllocationMismatch")
        ELSE Finalize(o2, t)

\* Mutant of SoloCarry: the subtraction is made first, prizePool - spent.
SoloCarrySubFirst(next, prizePool, spent) ==
    IF prizePool < spent THEN <<"Panic", 0>>
    ELSE <<"ok", next + prizePool - spent>>

\* nextPrizePool + currentRound.prizePool - spent, in checked arithmetic
SoloCarry(next, prizePool, spent) ==
    IF next + prizePool < spent THEN <<"Panic", 0>>
    ELSE <<"ok", next + prizePool - spent>>

\* The body of refundSoloRound after its two checks
SoloRefund(s, t, players, usdcFail) ==
    LET roundId == s.currentRound.id
        player == players[1]
        spent == s.totalSpent[roundId][player]
        carry == SoloCarry(s.nextPrizePool, s.currentRound.prizePool, spent)
        s1 == [s EXCEPT !.nextPrizePool = carry[2],
                        !.pendingEth = @ + s.currentRound.ethPrizePool]
        r  == IF spent > 0 THEN SafeTransfer(Done(s1), player, spent, usdcFail)
              ELSE <<"ok", Done(s1)>>
        s0 == [s EXCEPT !.nextPrizePool = @ + s.currentRound.prizePool,
                        !.pendingEth = @ + s.currentRound.ethPrizePool]
    IN  IF Len(players) = 1
        THEN IF carry[1] # "ok" THEN Revert(s, s, carry[1])
             ELSE IF r[1] # "ok" THEN Revert(s, s1, r[1])
             ELSE Finalize(r[2], t)
        ELSE Finalize(Done(s0), t)

refundSoloRound(s, t, sender, usdcFail) ==
    LET roundId == s.currentRound.id
    IN  IF _validateResolution(s, t) # "ok"
        THEN Revert(s, s, _validateResolution(s, t))
        ELSE IF Len(s.roundPlayers[roundId]) >= 2 THEN Revert(s, s, "HasMultiplePlayers")
        ELSE SoloRefund(s, t, s.roundPlayers[roundId], usdcFail)

\* Mutant of _emergencySoloRefund: the ETH pool is not carried forward.
_emergencySoloRefundDropsEth(s, t, players, usdcFail) ==
    LET roundId == s.currentRound.id
        spent == s.totalSpent[roundId][players[1]]
        carry == SoloCarry(s.nextPrizePool, s.currentRound.prizePool, spent)
        one == [s EXCEPT !.nextPrizePool = carry[2]]
        paid == IF spent > 0 THEN SafeTransfer(Done(one), players[1], spent, usdcFail)
                ELSE <<"ok", Done(one)>>
        none == [s EXCEPT !.nextPrizePool = @ + s.currentRound.prizePool]
    IN  IF Len(players) = 1
        THEN IF carry[1] # "ok" THEN Revert(s, s, carry[1])
             ELSE IF paid[1] # "ok" THEN Revert(s, one, paid[1])
             ELSE [paid[2] EXCEPT
                      !.s = _autoAdvance([paid[2].s EXCEPT !.currentRound.resolved = TRUE], t)]
        ELSE Done(_autoAdvance([none EXCEPT !.currentRound.resolved = TRUE], t))

\* _emergencySoloRefund(roundId, players), called by emergencyResolve with
\* players = _roundPlayers[roundId] when there are fewer than 2 of them
_emergencySoloRefund(s, t, players, usdcFail) ==
    LET roundId == s.currentRound.id
        spent == s.totalSpent[roundId][players[1]]
        carry == SoloCarry(s.nextPrizePool, s.currentRound.prizePool, spent)
        one == [s EXCEPT !.nextPrizePool = carry[2],
                         !.pendingEth = @ + s.currentRound.ethPrizePool]
        paid == IF spent > 0 THEN SafeTransfer(Done(one), players[1], spent, usdcFail)
                ELSE <<"ok", Done(one)>>
        none == [s EXCEPT !.nextPrizePool = @ + s.currentRound.prizePool,
                          !.pendingEth = @ + s.currentRound.ethPrizePool]
    IN  IF Len(players) = 1
        THEN IF carry[1] # "ok" THEN Revert(s, s, carry[1])
             ELSE IF paid[1] # "ok" THEN Revert(s, one, paid[1])
             ELSE [paid[2] EXCEPT
                      !.s = _autoAdvance([paid[2].s EXCEPT !.currentRound.resolved = TRUE], t)]
        ELSE Done(_autoAdvance([none EXCEPT !.currentRound.resolved = TRUE], t))

RECURSIVE SumSpent(_, _, _)
SumSpent(s, players, i) ==
    IF i > Len(players) THEN 0
    ELSE s.totalSpent[s.currentRound.id][players[i]] + SumSpent(s, players, i + 1)

\* Mutant of ProportionalAllocs: the rounding dust goes to the first player.
ProportionalAllocsDustFirst(s, players, pool) ==
    LET totalBids == SumSpent(s, players, 1)
        n == Len(players)
        base == [i \in 1..n |->
                    IF totalBids > 0
                    THEN MulDiv(pool, s.totalSpent[s.currentRound.id][players[i]], totalBids)
                    ELSE 0]
        distributed == SumSeq(base)
    IN  IF distributed < pool /\ n > 0
        THEN [base EXCEPT ![1] = @ + (pool - distributed)]
        ELSE base

\* allocation of `pool` over the players, proportional to total spend,
\* rounding dust to the last player
ProportionalAllocs(s, players, pool) ==
    LET totalBids == SumSpent(s, players, 1)
        n == Len(players)
        base == [i \in 1..n |->
                    IF totalBids > 0
                    THEN MulDiv(pool, s.totalSpent[s.currentRound.id][players[i]], totalBids)
                    ELSE 0]
        distributed == SumSeq(base)
    IN  IF distributed < pool /\ n > 0
        THEN [base EXCEPT ![n] = @ + (pool - distributed)]
        ELSE base

RECURSIVE PayBothFrom(_, _, _, _, _, _, _)
\* the transfer loop of emergencyResolve: USDC, then ETH, per winner
PayBothFrom(i, o, winners, usdcAllocs, ethAllocs, usdcFail, ethFail) ==
    IF i > Len(winners) THEN <<"ok", o>>
    ELSE LET r == IF usdcAllocs[i] > 0
                  THEN SafeTransfer(o, winners[i], usdcAllocs[i], usdcFail)
                  ELSE <<"ok", o>>
             e == IF ethAllocs[i] > 0
                  THEN SendEthOrPark(r[2], winners[i], ethAllocs[i], ethFail)
                  ELSE r[2]
         IN  IF r[1] # "ok" THEN r
             ELSE PayBothFrom(i + 1, e, winners, usdcAllocs, ethAllocs, usdcFail, ethFail)

\* Mutant of EmergencyReady: the timeout runs from the unextended end.
EmergencyReadyUnextended(s, t) ==
    t >= s.currentRound.startedAt + s.roundDuration + EMERGENCY_TIMEOUT

EmergencyReady(s, t) == t >= s.currentRound.endTime + EMERGENCY_TIMEOUT

emergencyResolve(s, t, sender, usdcFail, ethFail) ==
    LET roundId == s.currentRound.id
        players == s.roundPlayers[roundId]
        rake == Rake(s.currentRound.prizePool, s.rakeBps)
        distributable == Distributable(s.currentRound.prizePool, rake)
        s1 == [s EXCEPT !.accumulatedRake = @ + rake]
        usdcAllocs == ProportionalAllocs(s, players, distributable)
        ethAllocs == ProportionalAllocs(s, players, s.currentRound.ethPrizePool)
        p == PayBothFrom(1, [Done(s1) EXCEPT !.fee = rake], players,
                         usdcAllocs, ethAllocs, usdcFail, ethFail)
    IN  IF onlyOwner(sender) # "ok" THEN Revert(s, s, onlyOwner(sender))
        ELSE IF _validateResolution(s, t) # "ok"
             THEN Revert(s, s, _validateResolution(s, t))
        ELSE IF ~EmergencyReady(s, t) THEN Revert(s, s, "EmergencyNotReady")
        ELSE IF Len(players) < 2 THEN _emergencySoloRefund(s, t, players, usdcFail)
        ELSE IF p[1] # "ok" THEN Revert(s, p[2].s, p[1])
        ELSE Finalize(p[2], t)

\* Claim ETH that failed to transfer during resolution
claimEth(s, sender, ethFail) ==
    LET amount == s.unclaimedEth[sender]
    IN  IF amount = 0 THEN Revert(s, s, "NothingToClaim")
        ELSE IF sender \in ethFail \/ s.ethBalance < amount
             THEN Revert(s, s, "ETH transfer failed")
        ELSE [Done([s EXCEPT !.unclaimedEth[sender] = 0, !.ethBalance = @ - amount])
                EXCEPT !.ethOut[sender] = amount]

\* Rescue ETH not assigned to any round or unclaimed pool
rescueEth(s, sender, ethFail) ==
    LET committed == s.currentRound.ethPrizePool + s.pendingEth
        rescuable == s.ethBalance - committed
    IN  IF onlyOwner(sender) # "ok" THEN Revert(s, s, onlyOwner(sender))
        ELSE IF s.ethBalance < committed THEN Revert(s, s, "Panic")
        ELSE IF rescuable = 0 THEN Revert(s, s, "Nothing to rescue")
        ELSE IF OWNER \in ethFail THEN Revert(s, s, "ETH transfer failed")
        ELSE [Done([s EXCEPT !.ethBalance = @ - rescuable])
                EXCEPT !.ethOut[OWNER] = rescuable]

\* ─── Admin ──────────────────────────────────────────────────────────────

setOracle(s, sender, _oracle) ==
    IF onlyOwner(sender) # "ok" THEN Revert(s, s, onlyOwner(sender))
    ELSE Done([s EXCEPT !.oracleAddress = _oracle])

setMinBid(s, sender, _minBid) ==
    IF onlyOwner(sender) # "ok" THEN Revert(s, s, onlyOwner(sender))
    ELSE Done([s EXCEPT !.minBid = _minBid])

\* Mutant of setRoundDuration: the running round is given the new duration.
setRoundDurationRetimes(s, sender, _duration) ==
    IF onlyOwner(sender) # "ok" THEN Revert(s, s, onlyOwner(sender))
    ELSE Done([s EXCEPT !.roundDuration = _duration,
                        !.currentRound.endTime =
                            IF s.currentRound.startedAt > 0 /\ ~s.currentRound.resolved
                            THEN s.currentRound.startedAt + _duration ELSE @])

setRoundDuration(s, sender, _duration) ==
    IF onlyOwner(sender) # "ok" THEN Revert(s, s, onlyOwner(sender))
    ELSE Done([s EXCEPT !.roundDuration = _duration])

setRake(s, sender, _rakeBps) ==
    IF onlyOwner(sender) # "ok" THEN Revert(s, s, onlyOwner(sender))
    ELSE IF _rakeBps > MAX_RAKE_BPS THEN Revert(s, s, "RakeTooHigh")
    ELSE Done([s EXCEPT !.rakeBps = _rakeBps])

setSplit(s, sender, _splitBps) ==
    IF onlyOwner(sender) # "ok" THEN Revert(s, s, onlyOwner(sender))
    ELSE IF _splitBps > BPS_DENOMINATOR THEN Revert(s, s, "SplitTooHigh")
    ELSE Done([s EXCEPT !.splitBps = _splitBps])

setMaxSlotsPerPlayer(s, sender, _cap) ==
    IF onlyOwner(sender) # "ok" THEN Revert(s, s, onlyOwner(sender))
    ELSE IF _cap = 0 \/ _cap > NUM_SLOTS THEN Revert(s, s, "InvalidSlotCap")
    ELSE Done([s EXCEPT !.maxSlotsPerPlayer = _cap])

withdrawRake(s, sender, usdcFail) ==
    LET amount == s.accumulatedRake
        r == SafeTransfer(Done([s EXCEPT !.accumulatedRake = 0]), OWNER, amount, usdcFail)
    IN  IF onlyOwner(sender) # "ok" THEN Revert(s, s, onlyOwner(sender))
        ELSE IF r[1] # "ok" THEN Revert(s, r[2].s, r[1])
        ELSE r[2]

pause(s, sender) ==
    IF onlyOwner(sender) # "ok" THEN Revert(s, s, onlyOwner(sender))
    ELSE IF s.paused THEN Revert(s, s, "EnforcedPause")
    ELSE Done([s EXCEPT !.paused = TRUE])

unpause(s, sender) ==
    IF onlyOwner(sender) # "ok" THEN Revert(s, s, onlyOwner(sender))
    ELSE IF ~s.paused THEN Revert(s, s, "ExpectedPause")
    ELSE Done([s EXCEPT !.paused = FALSE])

\* ─── Init ───────────────────────────────────────────────────────────────

NoArgs == [slot |-> 0, word |-> <<>>, amount |-> 0, oracle |-> ZERO,
           winners |-> <<>>, usdcAmounts |-> <<>>, ethAmounts |-> <<>>]
Arg(amount) == [NoArgs EXCEPT !.amount = amount]

ResolutionOps == {"resolveRound", "refundSoloRound", "emergencyResolve"}
ConfigOps == {"setOracle", "setMinBid", "setRoundDuration", "setRake", "setSplit",
              "setMaxSlotsPerPlayer", "pause", "unpause"}
\* errors of the modifiers: the call is rejected before its body runs
ModifierErrors == {"NoActiveRound", "RoundAlreadyResolved", "RoundNotActive",
                   "EnforcedPause", "NotOracle", "OwnableUnauthorizedAccount"}

Init ==
    /\ now = 1
    /\ paused = FALSE
    /\ minBid = 1
    /\ oracleAddress = ORACLE
    /\ roundDuration = 120
    /\ rakeBps = 0
    /\ splitBps = 5000
    /\ maxSlotsPerPlayer = DefaultMaxSlots
    /\ accumulatedRake = 0
    /\ nextPrizePool = 0
    /\ pendingEth = 0
    /\ currentRound = NoRound
    /\ slots = [i \in SlotIds |-> EmptySlot]
    /\ cumulativeBids = [r \in RoundIds |-> [i \in SlotIds |-> [a \in Players |-> 0]]]
    /\ totalSpent = [r \in RoundIds |-> [a \in Players |-> 0]]
    /\ playerSlotCount = [r \in RoundIds |-> [a \in Players |-> 0]]
    /\ roundPlayers = [r \in RoundIds |-> <<>>]
    /\ isPlayer = [r \in RoundIds |-> {}]
    /\ unclaimedEth = [a \in Accounts |-> 0]
    /\ usdcBalance = 0
    /\ ethBalance = 0
    /\ last = [op |-> "constructor", sender |-> OWNER, err |-> "ok", args |-> NoArgs,
               usdcOut |-> NoPay, ethOut |-> NoPay, ethParked |-> NoPay, fee |-> 0]
    /\ resolutions = [r \in RoundIds |-> 0]
    /\ bidCount = 0
    /\ fundCalls = 0
    /\ configCalls = 0

\* ─── Actions ────────────────────────────────────────────────────────────

\* The call `op` of `sender` with `args` ended as `o`: the storage becomes
\* o.s, the ghosts record the call (its arguments, unless a modifier
\* rejected it before the body read them).
Commit(op, sender, args, o) ==
    /\ paused' = o.s.paused
    /\ minBid' = o.s.minBid
    /\ oracleAddress' = o.s.oracleAddress
    /\ roundDuration' = o.s.roundDuration
    /\ rakeBps' = o.s.rakeBps
    /\ splitBps' = o.s.splitBps
    /\ maxSlotsPerPlayer' = o.s.maxSlotsPerPlayer
    /\ accumulatedRake' = o.s.accumulatedRake
    /\ nextPrizePool' = o.s.nextPrizePool
    /\ pendingEth' = o.s.pendingEth
    /\ currentRound' = o.s.currentRound
    /\ slots' = o.s.slots
    /\ cumulativeBids' = o.s.cumulativeBids
    /\ totalSpent' = o.s.totalSpent
    /\ playerSlotCount' = o.s.playerSlotCount
    /\ roundPlayers' = o.s.roundPlayers
    /\ isPlayer' = o.s.isPlayer
    /\ unclaimedEth' = o.s.unclaimedEth
    /\ usdcBalance' = o.s.usdcBalance
    /\ ethBalance' = o.s.ethBalance
    /\ last' = [op |-> op, sender |-> sender, err |-> o.err,
                args |-> IF o.err \in ModifierErrors THEN NoArgs ELSE args,
                usdcOut |-> o.usdcOut, ethOut |-> o.ethOut,
                ethParked |-> o.ethParked, fee |-> o.fee]
    /\ resolutions' = IF op \in ResolutionOps /\ o.err = "ok"
                      THEN [resolutions EXCEPT ![currentRound.id] = @ + 1]
                      ELSE resolutions
    /\ bidCount' = IF op = "bid" /\ o.err = "ok" THEN bidCount + 1 ELSE bidCount
    /\ fundCalls' = IF op = "fund" /\ o.err = "ok" THEN fundCalls + 1 ELSE fundCalls
    /\ configCalls' = IF op \in ConfigOps /\ o.err = "ok"
                      THEN configCalls + 1 ELSE configCalls
    /\ UNCHANGED now

InBounds == currentRound.id <= MaxRounds

\* The times of the model: MaxTicks steps of one minute after the start,
\* and the same again one day (the emergency timeout) later.
MaxTime == 1 + MaxTicks * ANTI_SNIPE_WINDOW + EMERGENCY_TIMEOUT

TimeInBounds(t) ==
    /\ t <= MaxTime
    /\ (t - 1) % EMERGENCY_TIMEOUT <= MaxTicks * ANTI_SNIPE_WINDOW

\* The clock advances by one of `steps` seconds
Tick(steps) ==
    /\ \E d \in steps :
          /\ TimeInBounds(now + d)
          /\ now' = now + d
    /\ last' = [op |-> "tick", sender |-> ZERO, err |-> "ok", args |-> NoArgs,
                usdcOut |-> NoPay, ethOut |-> NoPay, ethParked |-> NoPay, fee |-> 0]
    /\ UNCHANGED <<storage, resolutions, bidCount, fundCalls, configCalls>>

\* calls: records [sender, slot, word, amount, ok], ok = the USDC deposit succeeds
Bid(calls) ==
    /\ InBounds
    /\ bidCount < MaxBids
    /\ \E in \in calls :
          Commit("bid", in.sender,
                 [NoArgs EXCEPT !.slot = in.slot, !.word = in.word,
                                !.amount = in.amount],
                 bid(S, now, in.sender, in.slot, in.word, in.amount, in.ok))

StartRound(topUps, oks) ==
    /\ InBounds
    /\ \E topUp \in topUps, depositOk \in oks :
          Commit("startRound", OWNER, Arg(topUp),
                 startRound(S, now, OWNER, topUp, depositOk))

Fund(amounts, oks) ==
    /\ InBounds
    /\ fundCalls < MaxFunds
    /\ \E amount \in amounts, depositOk \in oks :
          Commit("fund", "A", Arg(amount), fund(S, now, "A", amount, depositOk))

Receive(values) ==
    /\ InBounds
    /\ \E value \in values :
          /\ ethBalance + value <= MaxEth
          /\ Commit("receive", "A", Arg(value), receive(S, value))

\* allocations an oracle may submit for n recipients and a pool of d: all to
\* the first, an even split, one unit short, and one entry too many
AllocChoices(n, d) ==
    {[i \in 1..n |-> IF i = 1 THEN d ELSE 0],
     [i \in 1..n |-> IF i = n THEN d - (n - 1) * (d \div n) ELSE d \div n],
     [i \in 1..n |-> IF i = 1 /\ d > 0 THEN d - 1 ELSE 0],
     [i \in 1..(n + 1) |-> IF i = 1 THEN d ELSE 0]}

\* A resolution is due: _validateResolution would pass
Due == currentRound.id > 0 /\ _validateResolution(S, now) = "ok"

\* The inputs that no rejected call reads are not enumerated: `choices` when
\* the call gets as far as reading them, a single value otherwise.
If(read, choices, single) == IF read THEN choices ELSE {single}

ResolveRound(senders, winnerLists, usdcFails, ethFails) ==
    /\ InBounds
    /\ \E sender \in senders :
          LET read == /\ sender = oracleAddress
                      /\ Due
                      /\ Len(roundPlayers[currentRound.id]) >= 2
              d == Distributable(currentRound.prizePool,
                                 Rake(currentRound.prizePool, rakeBps))
              e == currentRound.ethPrizePool
          IN  \E winners \in If(read, winnerLists, <<>>) :
              \E usdcAmounts \in If(read, AllocChoices(Len(winners), d), <<>>),
                 ethAmounts \in If(read /\ e > 0,
                                   AllocChoices(Len(winners), e) \cup {<<>>}, <<>>),
                 usdcFail \in If(read, usdcFails, {}),
                 ethFail \in If(read /\ e > 0, ethFails, {}) :
                 Commit("resolveRound", sender,
                        [NoArgs EXCEPT !.winners = winners,
                                       !.usdcAmounts = usdcAmounts,
                                       !.ethAmounts = ethAmounts],
                        resolveRound(S, now, sender, winners, usdcAmounts, ethAmounts,
                                     usdcFail, ethFail))

RefundSoloRound(senders, usdcFails) ==
    /\ InBounds
    /\ \E sender \in senders, usdcFail \in If(Due, usdcFails, {}) :
          Commit("refundSoloRound", sender, NoArgs,
                 refundSoloRound(S, now, sender, usdcFail))

EmergencyResolve(senders, usdcFails, ethFails) ==
    /\ InBounds
    /\ \E sender \in senders :
          LET read == sender = OWNER /\ Due /\ EmergencyReady(S, now)
          IN  \E usdcFail \in If(read, usdcFails, {}),
                 ethFail \in If(read /\ currentRound.ethPrizePool > 0, ethFails, {}) :
                 Commit("emergencyResolve", sender, NoArgs,
                        emergencyResolve(S, now, sender, usdcFail, ethFail))

ClaimEth(senders, ethFails) ==
    /\ InBounds
    /\ \E sender \in senders, ethFail \in ethFails :
          Commit("claimEth", sender, NoArgs, claimEth(S, sender, ethFail))

RescueEth(senders, ethFails) ==
    /\ InBounds
    /\ \E sender \in senders, ethFail \in ethFails :
          Commit("rescueEth", sender, NoArgs, rescueEth(S, sender, ethFail))

WithdrawRake(senders, usdcFails) ==
    /\ InBounds
    /\ \E sender \in senders, usdcFail \in usdcFails :
          Commit("withdrawRake", sender, NoArgs, withdrawRake(S, sender, usdcFail))

ConfigAllowed(sender) == sender # OWNER \/ configCalls < MaxConfigCalls

SetOracle(senders, values) ==
    /\ InBounds
    /\ \E sender \in senders, v \in values :
          /\ ConfigAllowed(sender)
          /\ Commit("setOracle", sender, [NoArgs EXCEPT !.oracle = v],
                    setOracle(S, sender, v))

SetMinBid(senders, values) ==
    /\ InBounds
    /\ \E sender \in senders, v \in values :
          /\ ConfigAllowed(sender)
          /\ Commit("setMinBid", sender, Arg(v), setMinBid(S, sender, v))

SetRoundDuration(senders, values) ==
    /\ InBounds
    /\ \E sender \in senders, v \in values :
          /\ ConfigAllowed(sender)
          /\ Commit("setRoundDuration", sender, Arg(v), setRoundDuration(S, sender, v))

SetRake(senders, values) ==
    /\ InBounds
    /\ \E sender \in senders, v \in values :
          /\ ConfigAllowed(sender)
          /\ Commit("setRake", sender, Arg(v), setRake(S, sender, v))

SetSplit(senders, values) ==
    /\ InBounds
    /\ \E sender \in senders, v \in values :
          /\ ConfigAllowed(sender)
          /\ Commit("setSplit", sender, Arg(v), setSplit(S, sender, v))

SetMaxSlotsPerPlayer(senders, values) ==
    /\ InBounds
    /\ \E sender \in senders, v \in values :
          /\ ConfigAllowed(sender)
          /\ Commit("setMaxSlotsPerPlayer", sender, Arg(v),
                    setMaxSlotsPerPlayer(S, sender, v))

Pause(senders) ==
    /\ InBounds
    /\ \E sender \in senders :
          /\ ConfigAllowed(sender)
          /\ Commit("pause", sender, NoArgs, pause(S, sender))

Unpause(senders) ==
    /\ InBounds
    /\ \E sender \in senders :
          /\ ConfigAllowed(sender)
          /\ Commit("unpause", sender, NoArgs, unpause(S, sender))

\* ─── The bid ledger: bids of two participants on two slots ──────────────

BidCall(sender, slot, word, amount, ok) ==
    [sender |-> sender, slot |-> slot, word |-> word, amount |-> amount, ok |-> ok]

\* one ill-formed bid per validation error
IllFormedBids ==
    {BidCall("A", 0, WordEmptyStr, 1, TRUE),
     BidCall("A", 0, WordA, 0, TRUE),
     BidCall("A", NUM_SLOTS, WordA, 1, TRUE),
     BidCall("A", 0, WordWithSpace, 1, TRUE),
     BidCall("A", 0, WordLong, 1, TRUE)}

\* the well-formed bids, one whose deposit fails, and the ill-formed ones
LedgerBids ==
    {BidCall(p, 0, w, a, TRUE) : p \in Players, w \in {WordA, WordB}, a \in {1, 2}}
    \cup {BidCall(p, 1, WordA, 1, TRUE) : p \in Players}
    \cup {BidCall("B", 1, WordB, 2, FALSE)}
    \cup IllFormedBids

LedgerTick == Tick({2 * ANTI_SNIPE_WINDOW})
LedgerBid == Bid(LedgerBids)
LedgerStartRound == StartRound({0, 5}, {FALSE, TRUE})
LedgerSetCap == SetMaxSlotsPerPlayer({OWNER}, {0, 1})
LedgerRefund == RefundSoloRound({"B"}, {{}})
LedgerResolve == ResolveRound({ORACLE}, {<<"A", "B">>}, {{}}, {{}})

NextLedger ==
    \/ LedgerTick
    \/ LedgerBid
    \/ LedgerStartRound
    \/ LedgerSetCap
    \/ LedgerRefund
    \/ LedgerResolve

SpecLedger == Init /\ [][NextLedger]_vars

\* ─── The clock: bids at every half minute of a round ────────────────────

ClockBids ==
    {BidCall("A", 0, WordA, 1, TRUE), BidCall("B", 1, WordB, 1, TRUE)}

ClockTick == Tick({30, EMERGENCY_TIMEOUT})
ClockBid == Bid(ClockBids)
ClockStartRound == StartRound({5}, {TRUE})
ClockFund == Fund({5}, {FALSE, TRUE})
ClockSetDuration == SetRoundDuration({OWNER}, {30, 60})
ClockRefund == RefundSoloRound({"B"}, {{}})
ClockResolve == ResolveRound({ORACLE, "A"}, {<<"A", "B">>}, {{}}, {{}})
ClockEmergency == EmergencyResolve({OWNER, "A"}, {{}}, {{}})

NextClock ==
    \/ ClockTick
    \/ ClockBid
    \/ ClockStartRound
    \/ ClockFund
    \/ ClockSetDuration
    \/ ClockRefund
    \/ ClockResolve
    \/ ClockEmergency

SpecClock == Init /\ [][NextClock]_vars

\* ─── The payouts: resolution of rounds with USDC and ETH pools ──────────

PayoutBids ==
    {BidCall("A", 0, WordA, a, TRUE) : a \in {3, 2 * MIN_AUTO_START}}
    \cup {BidCall("B", 0, WordB, 1, TRUE)}

PayoutTick == Tick({2 * ANTI_SNIPE_WINDOW, EMERGENCY_TIMEOUT})
PayoutBid == Bid(PayoutBids)
PayoutStartRound == StartRound({0, 5, MIN_AUTO_START}, {TRUE})
PayoutReceive == Receive({2})
PayoutSetRake == SetRake({OWNER}, {MAX_RAKE_BPS})
PayoutResolve == ResolveRound({ORACLE}, {<<"B">>, <<"A", "B">>}, {{}, {"B"}}, {{}, {"A"}})
PayoutRefund == RefundSoloRound({"B"}, {{}, {"A"}})
PayoutEmergency == EmergencyResolve({OWNER}, {{}, {"B"}}, {{}, {"A"}})

NextPayout ==
    \/ PayoutTick
    \/ PayoutBid
    \/ PayoutStartRound
    \/ PayoutReceive
    \/ PayoutSetRake
    \/ PayoutResolve
    \/ PayoutRefund
    \/ PayoutEmergency

SpecPayout == Init /\ [][NextPayout]_vars

\* ─── The solo refund: one participant, any split, seed and funding ──────

SoloBids ==
    {BidCall("A", s, WordA, 3, TRUE) : s \in {0, 1}}
    \cup {BidCall("B", 0, WordB, 1, TRUE)}

SoloTick == Tick({2 * ANTI_SNIPE_WINDOW})
SoloBid == Bid(SoloBids)
SoloStartRound == StartRound({0, 5, MIN_AUTO_START}, {TRUE})
SoloFund == Fund({5}, {TRUE})
SoloReceive == Receive({2})
SoloSetSplit == SetSplit({OWNER}, {0, 1, BPS_DENOMINATOR})
SoloRefundCall == RefundSoloRound({"B"}, {{}, {"A"}})

NextSolo ==
    \/ SoloTick
    \/ SoloBid
    \/ SoloStartRound
    \/ SoloFund
    \/ SoloReceive
    \/ SoloSetSplit
    \/ SoloRefundCall

SpecSolo == Init /\ [][NextSolo]_vars

\* ─── The configuration: every setter, by the owner and by someone else ──

ConfigBids ==
    {BidCall("A", s, WordA, 7, TRUE) : s \in {0, 1}}
    \cup {BidCall("B", 0, WordB, 7, TRUE)}

NextConfig ==
    \/ Tick({ANTI_SNIPE_WINDOW})
    \/ Bid(ConfigBids)
    \/ StartRound({100, MIN_AUTO_START}, {TRUE})
    \/ SetOracle({OWNER, "A"}, {"A"})
    \/ SetMinBid({OWNER, "A"}, {8})
    \/ SetRoundDuration({OWNER, "A"}, {ANTI_SNIPE_WINDOW})
    \/ SetRake({OWNER, "A"}, {MAX_RAKE_BPS, MAX_RAKE_BPS + 1})
    \/ SetSplit({OWNER, "A"}, {3333, BPS_DENOMINATOR + 1})
    \/ SetMaxSlotsPerPlayer({OWNER, "A"}, {0, 1})
    \/ ResolveRound({ORACLE, "A"}, {<<"A", "B">>}, {{}}, {{}})
    \/ RefundSoloRound({"B"}, {{}})

SpecConfig == Init /\ [][NextConfig]_vars

\* ─── The words: one participant bids words of every kind ────────────────

\* the empty word; a NUL, a tab, a space, an underscore, a letter, the byte
\* 0xFF; a no-break space and an e-acute in UTF-8; two words, under_score;
\* 22 bytes ending in a space, 22 letters; 23 bytes starting with a space,
\* 23 letters
Words ==
    {<<>>,
     <<0>>, <<9>>, <<SPACE>>, <<95>>, <<97>>, <<255>>,
     <<194, 160>>, <<195, 169>>,
     <<97, SPACE, 98>>, <<97, 95, 98>>,
     [i \in 1..MAX_WORD_LENGTH |-> IF i = MAX_WORD_LENGTH THEN SPACE ELSE 97],
     [i \in 1..MAX_WORD_LENGTH |-> 97],
     [i \in 1..(MAX_WORD_LENGTH + 1) |-> IF i = 1 THEN SPACE ELSE 97],
     [i \in 1..(MAX_WORD_LENGTH + 1) |-> 97]}

\* every word on a valid slot for a sufficient amount, and two bids that
\* fail an earlier check whatever their word
WordBids ==
    {BidCall("A", 0, w, 1, TRUE) : w \in Words}
    \cup {BidCall("A", NUM_SLOTS, <<>>, 1, TRUE),
          BidCall("A", 0, <<97, SPACE, 98>>, 0, TRUE)}

NextWords ==
    \/ Tick({2 * ANTI_SNIPE_WINDOW})
    \/ Bid(WordBids)
    \/ StartRound({5}, {TRUE})
    \/ RefundSoloRound({"B"}, {{}})

SpecWords == Init /\ [][NextWords]_vars

\* ─── The treasury: every way USDC enters and leaves the contract ────────

NextTreasury ==
    \/ Tick({2 * ANTI_SNIPE_WINDOW, EMERGENCY_TIMEOUT})
    \/ Bid(PayoutBids)
    \/ StartRound({0, 5, MIN_AUTO_START}, {TRUE})
    \/ Fund({5}, {FALSE, TRUE})
    \/ SetRake({OWNER}, {MAX_RAKE_BPS})
    \/ ResolveRound({ORACLE, "A"}, {<<"A", "B">>}, {{}, {"B"}}, {{}})
    \/ RefundSoloRound({"B"}, {{}, {"A"}})
    \/ EmergencyResolve({OWNER}, {{}, {"B"}}, {{}})
    \/ WithdrawRake({OWNER, "A"}, {{}, {OWNER}})

SpecTreasury == Init /\ [][NextTreasury]_vars

\* ─── The ETH side: pools, parked payouts, claims and the owner's rescue ──

NextEth ==
    \/ Tick({2 * ANTI_SNIPE_WINDOW, EMERGENCY_TIMEOUT})
    \/ Bid(ClockBids)
    \/ StartRound({5}, {TRUE})
    \/ Receive({1, 2})
    \/ ResolveRound({ORACLE}, {<<"A", "B">>}, {{}}, {{}, {"A"}})
    \/ RefundSoloRound({"B"}, {{}})
    \/ EmergencyResolve({OWNER}, {{}}, {{}, {"A"}})
    \/ ClaimEth({"A", "B"}, {{}, {"A"}})
    \/ RescueEth({OWNER, "A"}, {{}, {OWNER}})

SpecEth == Init /\ [][NextEth]_vars

\* ─── Properties ─────────────────────────────────────────────────────────

\* number of slots of the current round that p owns
Owned(p) == Cardinality({i \in SlotIds : slots[i].owner = p})

\* total of a payment record
SumPay(f) == f["A"] + f["B"] + f[OWNER]

Resolved(op) == last.op = op /\ last.err = "ok"
AcceptedBid == last.op = "bid" /\ last.err = "ok"
SuccessfulResolution == last.op \in ResolutionOps /\ last.err = "ok"

\* C1 as stated: every resolution, by whichever path, transfers out exactly
\* prizePool minus the fee in USDC, and pays or parks exactly ethPrizePool.
C1_EveryPathPaysPoolMinusFee ==
    [][SuccessfulResolution' =>
          /\ SumPay(last'.usdcOut) = currentRound.prizePool - last'.fee
          /\ SumPay(last'.ethOut) + SumPay(last'.ethParked) = currentRound.ethPrizePool]_vars

\* C1 amended: a resolution of a round with two or more participants
\* (resolveRound, emergencyResolve) transfers out exactly prizePool minus fee in
\* USDC and pays or parks exactly ethPrizePool; a resolution of a round with
\* fewer than two participants (refundSoloRound, emergencyResolve) transfers out
\* exactly the single participant's totalSpent (nothing without participants),
\* takes no fee and pays no ETH, and carries prizePool minus that refund and the
\* whole ethPrizePool forward.
C1_PayoutsAccountForPool ==
    [][SuccessfulResolution' =>
          LET id == currentRound.id
              n == Len(roundPlayers[id])
              refund == IF n = 1 THEN totalSpent[id][roundPlayers[id][1]] ELSE 0
          IN  IF n >= 2
              THEN /\ SumPay(last'.usdcOut) = currentRound.prizePool - last'.fee
                   /\ accumulatedRake' = accumulatedRake + last'.fee
                   /\ SumPay(last'.ethOut) + SumPay(last'.ethParked)
                         = currentRound.ethPrizePool
              ELSE /\ last'.op # "resolveRound"
                   /\ SumPay(last'.usdcOut) = refund
                   /\ last'.fee = 0 /\ accumulatedRake' = accumulatedRake
                   /\ (IF currentRound'.id # id THEN currentRound'.prizePool
                                                  ELSE nextPrizePool')
                         = nextPrizePool + currentRound.prizePool - refund
                   /\ SumPay(last'.ethOut) + SumPay(last'.ethParked) = 0
                   /\ (IF currentRound'.id # id THEN currentRound'.ethPrizePool
                                                  ELSE pendingEth')
                         = pendingEth + currentRound.ethPrizePool]_vars

\* C1 witness: the oracle resolved a round with a fee taken and ETH parked.
C1_Witness ==
    /\ Resolved("resolveRound")
    /\ last.fee > 0
    /\ SumPay(last.ethParked) > 0
    /\ SumPay(last.ethOut) > 0

\* C2: at most one resolution call succeeds for a round id; a resolution
\* call on a round that is already resolved is rejected and moves nothing.
C2_AtMostOneResolution ==
    [][/\ \A r \in RoundIds : resolutions'[r] <= 1
       /\ (last'.op \in ResolutionOps /\ currentRound.resolved)
             => /\ last'.err = "RoundAlreadyResolved"
                /\ SumPay(last'.usdcOut) + SumPay(last'.ethOut)
                      + SumPay(last'.ethParked) + last'.fee = 0
                /\ UNCHANGED storage]_vars

\* C2 witness: a resolution call was rejected on a round resolved before.
C2_Witness ==
    /\ last.op \in ResolutionOps
    /\ last.err = "RoundAlreadyResolved"
    /\ resolutions[currentRound.id] = 1

\* C3 as stated: in every reachable state no participant owns more slots of
\* the current round than maxSlotsPerPlayer.
C3_NeverAboveCap == \A p \in Players : Owned(p) <= maxSlotsPerPlayer

\* C3 amended: the number of slots a participant owns grows only up to the
\* maxSlotsPerPlayer in force at that bid, and it comes to exceed
\* maxSlotsPerPlayer only by a setMaxSlotsPerPlayer call that lowers the cap
\* below a number of slots already held.
C3_CapBoundsEveryTakeover ==
    [][\A p \in Players :
          /\ Owned(p)' > Owned(p) => Owned(p)' <= maxSlotsPerPlayer'
          /\ (Owned(p) <= maxSlotsPerPlayer /\ Owned(p)' > maxSlotsPerPlayer')
                => (last'.op = "setMaxSlotsPerPlayer" /\ last'.err = "ok")]_vars

\* C3 witness: a bid brought its bidder to exactly the cap.
C3_Witness ==
    /\ AcceptedBid
    /\ slots[last.args.slot].owner = last.sender
    /\ Owned(last.sender) = maxSlotsPerPlayer

\* C4 as stated: a failed payout transfer, in either currency, never reverts
\* resolveRound or emergencyResolve: the amount is parked and the round resolved.
C4_FailedPayoutNeverReverts ==
    last.op \in {"resolveRound", "emergencyResolve"} => last.err # "TransferFailed"

\* C5: a rejected bid, whatever the reason and however far it got, leaves the
\* clock and every storage variable unchanged.
C5_RejectedBidChangesNothing ==
    [][(last'.op = "bid" /\ last'.err # "ok") => UNCHANGED <<now, storage>>]_vars

\* C5 witness: the first bid of a pending round was rejected at the final
\* deposit, after the clock-start and all bookkeeping steps had run.
C5_Witness ==
    /\ last.op = "bid"
    /\ last.err = "TransferFailed"
    /\ currentRound.id > 0
    /\ currentRound.startedAt = 0

\* C6 as stated: every accepted bid, the first bid of a pending round
\* included, adds exactly 60 to the pre-bid endTime when endTime - now <= 60,
\* and leaves endTime unchanged otherwise.
C6_AntiSnipeOnEveryBid ==
    [][AcceptedBid' =>
          IF currentRound.endTime - now <= ANTI_SNIPE_WINDOW
          THEN currentRound'.endTime = currentRound.endTime + ANTI_SNIPE_EXTENSION
          ELSE currentRound'.endTime = currentRound.endTime]_vars

\* C6 amended: an accepted bid on a round that has started adds exactly 60 to
\* endTime when endTime - now <= 60 and leaves it unchanged otherwise; the first
\* bid of a pending round sets endTime to now + roundDuration, plus 60 when
\* roundDuration <= 60.
C6_AntiSnipeOnStartedRound ==
    [][AcceptedBid' =>
          IF currentRound.startedAt > 0
          THEN IF currentRound.endTime - now <= ANTI_SNIPE_WINDOW
               THEN currentRound'.endTime = currentRound.endTime + ANTI_SNIPE_EXTENSION
               ELSE currentRound'.endTime = currentRound.endTime
          ELSE currentRound'.endTime =
                  now + roundDuration
                  + (IF roundDuration <= ANTI_SNIPE_WINDOW
                     THEN ANTI_SNIPE_EXTENSION ELSE 0)]_vars

\* C6 witness: a bid placed exactly 60 s before the end extended the round.
C6_Witness ==
    /\ AcceptedBid
    /\ currentRound.startedAt < now
    /\ currentRound.endTime - now = ANTI_SNIPE_WINDOW + ANTI_SNIPE_EXTENSION

\* C7: within a round, a slot's owner, word and highestTotal change only in
\* an accepted bid on that slot whose resulting cumulative total is strictly
\* greater than the slot's highestTotal; a tie or a lower total changes nothing.
C7_OnlyStrictlyHigherTakesSlot ==
    [][\A i \in SlotIds :
          (currentRound'.id = currentRound.id /\ slots'[i] # slots[i])
             => /\ AcceptedBid'
                /\ last'.args.slot = i
                /\ cumulativeBids'[currentRound.id][i][last'.sender]
                      > slots[i].highestTotal
                /\ slots'[i] = [word |-> last'.args.word, owner |-> last'.sender,
                                highestTotal |->
                                   cumulativeBids'[currentRound.id][i][last'.sender]]]_vars

\* C7 witness: a bid brought its bidder level with the owner of the slot,
\* who kept it.
C7_Witness ==
    /\ AcceptedBid
    /\ slots[last.args.slot].owner \notin {last.sender, ZERO}
    /\ cumulativeBids[currentRound.id][last.args.slot][last.sender]
          = slots[last.args.slot].highestTotal

\* C8: within a round no slot's highestTotal decreases; it drops only to 0
\* and only when a new round is created.
C8_HighestTotalMonotonic ==
    [][\A i \in SlotIds :
          /\ currentRound'.id = currentRound.id
                => slots'[i].highestTotal >= slots[i].highestTotal
          /\ slots'[i].highestTotal < slots[i].highestTotal
                => /\ currentRound'.id = currentRound.id + 1
                   /\ slots'[i].highestTotal = 0]_vars

\* C8 witness: a new round was created after a round with a slot taken, and
\* a slot of the new round has been raised twice.
C8_Witness ==
    /\ currentRound.id = 2
    /\ \E p \in Players : totalSpent[1][p] > 0
    /\ AcceptedBid
    /\ slots[last.args.slot].highestTotal > last.args.amount

\* C9: a bid that passes the validations is rejected with SlotCapReached
\* exactly when its resulting cumulative total exceeds the slot's highestTotal,
\* the slot's owner is not the bidder and the bidder's slot count is at least
\* maxSlotsPerPlayer.
C9_SlotCapReachedExactly ==
    [][(last'.op = "bid" /\ last'.err \in {"ok", "SlotCapReached", "TransferFailed"}) =>
          LET p == last'.sender
              i == last'.args.slot
              newCumulative == cumulativeBids[currentRound.id][i][p] + last'.args.amount
          IN  (last'.err = "SlotCapReached")
                 <=> /\ newCumulative > slots[i].highestTotal
                     /\ slots[i].owner # p
                     /\ playerSlotCount[currentRound.id][p] >= maxSlotsPerPlayer]_vars

\* C9 witness: a participant at the cap raised the bid on a slot of their own.
C9_Witness ==
    /\ AcceptedBid
    /\ playerSlotCount[currentRound.id][last.sender] >= maxSlotsPerPlayer
    /\ slots[last.args.slot].owner = last.sender
    /\ slots[last.args.slot].highestTotal > last.args.amount
    /\ slots[last.args.slot].highestTotal
          = cumulativeBids[currentRound.id][last.args.slot][last.sender]

\* a successful refundSoloRound of a round with exactly one participant
SoloRefunded == Resolved("refundSoloRound")

\* C10 as stated: refundSoloRound on a round with one participant transfers
\* that participant's totalSpent, leaves nextPrizePool at its previous value
\* plus prizePool minus the refund and pendingEth at its previous value plus
\* ethPrizePool, charges no fee and never fails for arithmetic reasons.
C10_SoloRefundSetsPendingPools ==
    [][/\ last'.op = "refundSoloRound" => last'.err # "Panic"
       /\ (SoloRefunded' /\ Len(roundPlayers[currentRound.id]) = 1) =>
             LET id == currentRound.id
                 player == roundPlayers[id][1]
                 spent == totalSpent[id][player]
             IN  /\ last'.usdcOut = [NoPay EXCEPT ![player] = spent]
                 /\ nextPrizePool' = nextPrizePool + currentRound.prizePool - spent
                 /\ pendingEth' = pendingEth + currentRound.ethPrizePool
                 /\ last'.fee = 0 /\ accumulatedRake' = accumulatedRake]_vars

\* C10 amended: refundSoloRound on a round with one participant transfers
\* that participant's totalSpent, charges no fee, never fails for arithmetic
\* reasons, and carries forward the previous nextPrizePool plus prizePool minus
\* the refund, and pendingEth plus ethPrizePool: they are nextPrizePool and
\* pendingEth after the call when the carried USDC is below 1000000, and
\* otherwise the prizePool and ethPrizePool of the round the call auto-creates,
\* with nextPrizePool and pendingEth left at 0.
C10_SoloRefundCarriesForward ==
    [][/\ last'.op = "refundSoloRound" => last'.err # "Panic"
       /\ (SoloRefunded' /\ Len(roundPlayers[currentRound.id]) = 1) =>
             LET id == currentRound.id
                 player == roundPlayers[id][1]
                 spent == totalSpent[id][player]
                 carry == nextPrizePool + currentRound.prizePool - spent
                 carryEth == pendingEth + currentRound.ethPrizePool
             IN  /\ last'.usdcOut = [NoPay EXCEPT ![player] = spent]
                 /\ last'.fee = 0 /\ accumulatedRake' = accumulatedRake
                 /\ IF carry >= MIN_AUTO_START
                    THEN /\ currentRound'.id = id + 1
                         /\ currentRound'.prizePool = carry
                         /\ currentRound'.ethPrizePool = carryEth
                         /\ nextPrizePool' = 0 /\ pendingEth' = 0
                    ELSE /\ currentRound' = [currentRound EXCEPT !.resolved = TRUE]
                         /\ nextPrizePool' = carry
                         /\ pendingEth' = carryEth]_vars

\* C10 witness: a solo refund, after bids split to the next pool and a
\* direct funding, left the seed and the funding in nextPrizePool.
C10_Witness ==
    /\ SoloRefunded
    /\ SumPay(last.usdcOut) > 0
    /\ fundCalls > 0
    /\ splitBps < BPS_DENOMINATOR
    /\ nextPrizePool = 10
    /\ pendingEth > 0

\* a resolveRound call that gets past onlyOracle, _validateResolution and
\* the participant count, and so reads its allocation
ReadsAllocation ==
    /\ last'.op = "resolveRound"
    /\ last'.sender = oracleAddress
    /\ Due
    /\ Len(roundPlayers[currentRound.id]) >= 2

UsdcMismatch(args) ==
    \/ Len(args.winners) # Len(args.usdcAmounts)
    \/ SumSeq(args.usdcAmounts)
          # currentRound.prizePool - Rake(currentRound.prizePool, rakeBps)

EthMismatch(args) ==
    /\ currentRound.ethPrizePool > 0
    /\ \/ Len(args.ethAmounts) # Len(args.winners)
       \/ SumSeq(args.ethAmounts) # currentRound.ethPrizePool

NothingPaid(l) ==
    SumPay(l.usdcOut) + SumPay(l.ethOut) + SumPay(l.ethParked) + l.fee = 0

FloorShare(pool, spend, total) == MulDiv(pool, spend, total)

\* the proportional share of pool due to the i-th of the players, with the
\* whole rounding remainder added for the last of them
ExpectedShare(pool, spent, players, i) ==
    LET total == SumSeq([k \in 1..Len(players) |-> spent[players[k]]])
        floors == [k \in 1..Len(players) |-> FloorShare(pool, spent[players[k]], total)]
    IN  floors[i] + (IF i = Len(players) THEN pool - SumSeq(floors) ELSE 0)

\* C12: a successful emergencyResolve of a round with two or more
\* participants pays each participant floor(distributable * spend / total spend)
\* in USDC and floor(ethPrizePool * spend / total spend) in ETH (sent or parked),
\* the last participant in first-bid order receiving the whole remainder as
\* well, and the payments sum to distributable and to ethPrizePool.
C12_EmergencyProportional ==
    [][(last'.op = "emergencyResolve" /\ last'.err = "ok"
           /\ Len(roundPlayers[currentRound.id]) >= 2) =>
          LET id == currentRound.id
              players == roundPlayers[id]
              d == currentRound.prizePool - last'.fee
              e == currentRound.ethPrizePool
          IN  /\ last'.fee = Rake(currentRound.prizePool, rakeBps)
              /\ \A i \in 1..Len(players) :
                    /\ last'.usdcOut[players[i]]
                          = ExpectedShare(d, totalSpent[id], players, i)
                    /\ last'.ethOut[players[i]] + last'.ethParked[players[i]]
                          = ExpectedShare(e, totalSpent[id], players, i)
              /\ SumPay(last'.usdcOut) = d
              /\ SumPay(last'.ethOut) + SumPay(last'.ethParked) = e]_vars

\* C12 witness: an emergency resolution of a round with two participants
\* in which the last one received a remainder in both currencies.
C12_Witness ==
    /\ Resolved("emergencyResolve")
    /\ currentRound.resolved
    /\ Len(roundPlayers[currentRound.id]) = 2
    /\ LET id == currentRound.id
           lastPlayer == roundPlayers[id][2]
           total == totalSpent[id]["A"] + totalSpent[id]["B"]
       IN  /\ last.usdcOut[lastPlayer]
                 > FloorShare(currentRound.prizePool - last.fee,
                              totalSpent[id][lastPlayer], total)
           /\ last.ethOut[lastPlayer] + last.ethParked[lastPlayer]
                 > FloorShare(currentRound.ethPrizePool,
                              totalSpent[id][lastPlayer], total)
           /\ last.usdcOut[roundPlayers[id][1]] > 0

\* an emergencyResolve call of the owner that gets past _validateResolution
\* and the timeout on a round with fewer than two participants
EmergencySoloCall ==
    /\ last'.op = "emergencyResolve"
    /\ last'.sender = OWNER
    /\ Due
    /\ EmergencyReady(S, now)
    /\ Len(roundPlayers[currentRound.id]) < 2

\* the storage and the transfers after the step are those of outcome o
StepIs(o) ==
    /\ last'.err = o.err
    /\ last'.usdcOut = o.usdcOut
    /\ last'.ethOut = o.ethOut
    /\ last'.ethParked = o.ethParked
    /\ last'.fee = o.fee
    /\ paused' = o.s.paused /\ minBid' = o.s.minBid
    /\ oracleAddress' = o.s.oracleAddress /\ roundDuration' = o.s.roundDuration
    /\ rakeBps' = o.s.rakeBps /\ splitBps' = o.s.splitBps
    /\ maxSlotsPerPlayer' = o.s.maxSlotsPerPlayer
    /\ accumulatedRake' = o.s.accumulatedRake
    /\ nextPrizePool' = o.s.nextPrizePool /\ pendingEth' = o.s.pendingEth
    /\ currentRound' = o.s.currentRound /\ slots' = o.s.slots
    /\ cumulativeBids' = o.s.cumulativeBids /\ totalSpent' = o.s.totalSpent
    /\ playerSlotCount' = o.s.playerSlotCount
    /\ roundPlayers' = o.s.roundPlayers /\ isPlayer' = o.s.isPlayer
    /\ unclaimedEth' = o.s.unclaimedEth
    /\ usdcBalance' = o.s.usdcBalance /\ ethBalance' = o.s.ethBalance

\* C13: emergencyResolve on a round with fewer than two participants ends as
\* refundSoloRound would from the same state, at the same time and with the same
\* recipients refusing USDC: same error or success, same transfers, same storage
\* (nextPrizePool, pendingEth, accumulatedRake, resolved flag, auto-created round).
C13_EmergencySoloIsSoloRefund ==
    [][EmergencySoloCall =>
          /\ \A usdcFail \in SUBSET Players, ethFail \in SUBSET Players :
                emergencyResolve(S, now, OWNER, usdcFail, ethFail)
                   = refundSoloRound(S, now, "B", usdcFail)
          /\ \E usdcFail \in SUBSET Players :
                StepIs(refundSoloRound(S, now, "B", usdcFail))]_vars

\* C13 witness: the owner's emergencyResolve refunded the single participant
\* of a round that held ETH, and the carried pool started the next round.
C13_Witness ==
    /\ Resolved("emergencyResolve")
    /\ SumPay(last.usdcOut) > 0
    /\ last.fee = 0
    /\ currentRound.id = 2
    /\ currentRound.ethPrizePool > 0
    /\ Len(roundPlayers[1]) = 1

\* C14: right after a successful resolution, with next and eth the values
\* nextPrizePool and pendingEth have when the path has done its payments (the
\* solo paths add their carry first): if next >= 1000000 the current round is a
\* new pending one with id + 1, prizePool = next, ethPrizePool = eth, all slots
\* cleared and nextPrizePool = pendingEth = 0; otherwise the resolved round
\* stays current with nextPrizePool = next, and afterwards only a successful
\* startRound replaces a resolved current round.
C14_AutoAdvanceAfterResolution ==
    [][/\ SuccessfulResolution' =>
             LET id == currentRound.id
                 solo == Len(roundPlayers[id]) < 2
                 refund == IF Len(roundPlayers[id]) = 1
                           THEN totalSpent[id][roundPlayers[id][1]] ELSE 0
                 next == IF solo THEN nextPrizePool + currentRound.prizePool - refund
                         ELSE nextPrizePool
                 eth == IF solo THEN pendingEth + currentRound.ethPrizePool
                        ELSE pendingEth
             IN  IF next >= MIN_AUTO_START
                 THEN /\ currentRound' = [id |-> id + 1, createdAt |-> now,
                                          startedAt |-> 0, endTime |-> 0,
                                          prizePool |-> next, ethPrizePool |-> eth,
                                          resolved |-> FALSE]
                      /\ \A i \in SlotIds : slots'[i] = EmptySlot
                      /\ nextPrizePool' = 0 /\ pendingEth' = 0
                 ELSE /\ currentRound' = [currentRound EXCEPT !.resolved = TRUE]
                      /\ slots' = slots
                      /\ nextPrizePool' = next /\ pendingEth' = eth
       /\ (currentRound.resolved /\ currentRound' # currentRound)
             => (last'.op = "startRound" /\ last'.err = "ok"
                   /\ currentRound'.id = currentRound.id + 1)]_vars

\* C14 witness: the oracle's resolution of round 1 auto-created round 2
\* from the half of the bids set aside for it.
C14_Witness ==
    /\ Resolved("resolveRound")
    /\ currentRound.id = 2
    /\ currentRound.startedAt = 0
    /\ currentRound.prizePool >= MIN_AUTO_START
    /\ nextPrizePool = 0
    /\ SumPay(last.usdcOut) > 0

\* the caller a resolution path admits: the oracle, anyone, the owner
Authorised(op, sender) ==
    CASE op = "resolveRound" -> sender = oracleAddress
      [] op = "emergencyResolve" -> sender = OWNER
      [] OTHER -> TRUE

\* the state of the round as the resolution paths see it
RoundStatus ==
    IF currentRound.id = 0 THEN "NoActiveRound"
    ELSE IF currentRound.resolved THEN "RoundAlreadyResolved"
    ELSE IF currentRound.startedAt = 0 THEN "RoundNotStarted"
    ELSE IF now < currentRound.endTime THEN "RoundStillActive"
    ELSE "ok"

\* C15: a resolution call, by a caller the path admits, succeeds only on a
\* round that exists, has startedAt > 0, is unresolved and has now >= endTime;
\* otherwise it is rejected with NoActiveRound, RoundAlreadyResolved,
\* RoundNotStarted or RoundStillActive respectively; a rejected resolution call
\* changes no state and pays nothing.
C15_ResolutionNeedsEndedRound ==
    [][last'.op \in ResolutionOps =>
          /\ last'.err = "ok" => RoundStatus = "ok"
          /\ (Authorised(last'.op, last'.sender) /\ RoundStatus # "ok")
                => last'.err = RoundStatus
          /\ last'.err \in {"NoActiveRound", "RoundAlreadyResolved",
                            "RoundNotStarted", "RoundStillActive"}
                => last'.err = RoundStatus
          /\ last'.err # "ok" => (NothingPaid(last') /\ UNCHANGED <<now, storage>>)]_vars

\* C15 witness: a resolution call on the pending round that followed a
\* resolved one was rejected with RoundNotStarted.
C15_Witness ==
    /\ last.op \in ResolutionOps
    /\ last.err = "RoundNotStarted"
    /\ currentRound.id = 2
    /\ resolutions[1] = 1
    /\ Authorised(last.op, last.sender)

\* the distinct participants of the current round
Participants ==
    IF currentRound.id = 0 THEN {}
    ELSE {roundPlayers[currentRound.id][k] : k \in 1..Len(roundPlayers[currentRound.id])}

\* some allocation makes the oracle's resolveRound succeed now
ResolveCanSucceed ==
    \E winners \in {<<"B">>, <<"A", "B">>} :
       \E usdcAmounts \in AllocChoices(Len(winners),
                             currentRound.prizePool
                                - Rake(currentRound.prizePool, rakeBps)),
          ethAmounts \in AllocChoices(Len(winners), currentRound.ethPrizePool)
                            \cup {<<>>} :
          resolveRound(S, now, oracleAddress, winners, usdcAmounts, ethAmounts,
                       {}, {}).err = "ok"

RefundCanSucceed == refundSoloRound(S, now, "B", {}).err = "ok"

\* C16: resolveRound succeeds only on a round with two or more distinct
\* participants and is rejected with NeedMorePlayers on an ended round with
\* fewer; refundSoloRound succeeds only on a round with at most one participant
\* and is rejected with HasMultiplePlayers on an ended round with more; in no
\* state can both succeed.
C16_ParticipantCountPartitions ==
    [][/\ (last'.op = "resolveRound" /\ last'.err = "ok")
             => Cardinality(Participants) >= 2
       /\ (last'.op = "resolveRound" /\ last'.sender = oracleAddress /\ Due
              /\ Cardinality(Participants) < 2)
             => last'.err = "NeedMorePlayers"
       /\ (last'.op = "resolveRound" /\ last'.err = "NeedMorePlayers")
             => (Due /\ Cardinality(Participants) < 2)
       /\ (last'.op = "refundSoloRound" /\ last'.err = "ok")
             => Cardinality(Participants) <= 1
       /\ (last'.op = "refundSoloRound" /\ Due /\ Cardinality(Participants) >= 2)
             => last'.err = "HasMultiplePlayers"
       /\ (last'.op = "refundSoloRound" /\ last'.err = "HasMultiplePlayers")
             => (Due /\ Cardinality(Participants) >= 2)
       /\ ~(RefundCanSucceed /\ ResolveCanSucceed)]_vars

\* C16 witness: the oracle's resolveRound was rejected with NeedMorePlayers
\* on an ended round whose only participant had bid twice.
C16_Witness ==
    /\ last.op = "resolveRound"
    /\ last.err = "NeedMorePlayers"
    /\ Participants = {"A"}
    /\ totalSpent[currentRound.id]["A"] >= 2
    /\ RefundCanSucceed

\* the owner calls emergencyResolve on a started, unresolved round
OwnerEmergencyOnStarted ==
    /\ last'.op = "emergencyResolve"
    /\ last'.sender = OWNER
    /\ currentRound.id > 0
    /\ ~currentRound.resolved
    /\ currentRound.startedAt > 0

\* C17 as stated: emergencyResolve is rejected with EmergencyNotReady at every
\* time now < endTime + 24 hours.
C17_NotReadyBeforeTimeout ==
    [][(OwnerEmergencyOnStarted /\ now < currentRound.endTime + EMERGENCY_TIMEOUT)
          => last'.err = "EmergencyNotReady"]_vars

\* C17 amended: the owner's emergencyResolve is rejected with
\* EmergencyNotReady at every time endTime <= now < endTime + 24 hours, and with
\* RoundStillActive at every time now < endTime, endTime including every
\* anti-snipe extension; it is not rejected for its timing from
\* now >= endTime + 24 hours on, and no emergencyResolve succeeds before; a
\* resolution that succeeds before is a resolveRound or a refundSoloRound.
C17_NotReadyFromEndToTimeout ==
    [][/\ OwnerEmergencyOnStarted =>
             last'.err = (IF now < currentRound.endTime THEN "RoundStillActive"
                          ELSE IF now < currentRound.endTime + EMERGENCY_TIMEOUT
                               THEN "EmergencyNotReady"
                          ELSE "ok")
       /\ (last'.op = "emergencyResolve" /\ last'.err = "EmergencyNotReady")
             => (Due /\ now < currentRound.endTime + EMERGENCY_TIMEOUT)
       /\ (last'.op = "emergencyResolve" /\ last'.err # "ok")
             => UNCHANGED <<now, storage>>
       /\ (SuccessfulResolution' /\ now < currentRound.endTime + EMERGENCY_TIMEOUT)
             => last'.op \in {"resolveRound", "refundSoloRound"}]_vars

\* C17 witness: 24 hours after the end the round would have had without its
\* anti-snipe extension, the owner's emergencyResolve was rejected.
C17_Witness ==
    /\ last.op = "emergencyResolve"
    /\ last.err = "EmergencyNotReady"
    /\ configCalls = 0
    /\ now >= currentRound.startedAt + roundDuration + EMERGENCY_TIMEOUT
    /\ now < currentRound.endTime + EMERGENCY_TIMEOUT

\* C18: startRound, when the contract is not paused, is rejected with
\* PreviousRoundNotResolved unless no round was ever created or the current
\* round is resolved, and then with EmptyPrizePool when nextPrizePool and topUp
\* are both zero; on success the new round is pending with id + 1 and
\* prizePool = nextPrizePool + topUp, nextPrizePool is 0 and every slot is
\* cleared; a rejected call changes nothing; a round is replaced as current only
\* once it has been resolved.
C18_StartRoundOnlyAfterResolved ==
    [][/\ last'.op = "startRound" =>
             LET canStart == currentRound.id = 0 \/ currentRound.resolved
                 topUp == last'.args.amount
                 prize == nextPrizePool + topUp
             IN  /\ last'.err = "ok" => (canStart /\ prize > 0)
                 /\ (~paused /\ ~canStart)
                       => last'.err = "PreviousRoundNotResolved"
                 /\ (~paused /\ canStart /\ prize = 0)
                       => last'.err = "EmptyPrizePool"
                 /\ (~paused /\ canStart /\ prize > 0)
                       => last'.err \in {"ok", "TransferFailed"}
                 /\ last'.err = "ok" =>
                       /\ currentRound' = [id |-> currentRound.id + 1,
                                           createdAt |-> now,
                                           startedAt |-> 0, endTime |-> 0,
                                           prizePool |-> prize,
                                           ethPrizePool |-> pendingEth,
                                           resolved |-> FALSE]
                       /\ nextPrizePool' = 0
                       /\ \A i \in SlotIds : slots'[i] = EmptySlot
                       /\ usdcBalance' = usdcBalance + topUp
                 /\ last'.err # "ok" => UNCHANGED <<now, storage>>
       /\ currentRound'.id # currentRound.id
             => /\ currentRound'.id = currentRound.id + 1
                /\ ~currentRound'.resolved
                /\ currentRound.id = 0 \/ resolutions'[currentRound.id] = 1]_vars

\* C18 witness: a second round was started with a top-up added to the pool
\* that the bids of the first round had set aside, over slots that were taken.
C18_Witness ==
    /\ Resolved("startRound")
    /\ currentRound.id = 2
    /\ last.args.amount > 0
    /\ currentRound.prizePool > last.args.amount
    /\ \E p \in Players : playerSlotCount[1][p] > 0

\* the storage other than the current round and the USDC held
storageButRoundAndUsdc ==
    <<paused, minBid, oracleAddress, roundDuration, rakeBps, splitBps,
      maxSlotsPerPlayer, accumulatedRake, nextPrizePool, pendingEth, slots,
      cumulativeBids, totalSpent, playerSlotCount, roundPlayers, isPlayer,
      unclaimedEth, ethBalance>>

\* the current round exists, is unresolved and is pending or running
RoundIsOpen ==
    /\ currentRound.id > 0
    /\ ~currentRound.resolved
    /\ currentRound.startedAt = 0 \/ now < currentRound.endTime

\* C19: on an unpaused contract, fund(amount) on a pending or running round
\* adds exactly amount to the round's prizePool (the USDC coming in) and changes
\* nothing else; it is rejected with NoActiveRound when there is no round or the
\* round is resolved and with RoundEnded when the round has started and
\* now >= endTime; a rejected fund changes nothing.
C19_FundOnlyOpenRound ==
    [][last'.op = "fund" =>
          /\ last'.err = "ok" =>
                /\ RoundIsOpen
                /\ currentRound' = [currentRound EXCEPT
                                       !.prizePool = @ + last'.args.amount]
                /\ usdcBalance' = usdcBalance + last'.args.amount
                /\ UNCHANGED <<now, storageButRoundAndUsdc>>
          /\ (~paused /\ RoundIsOpen) => last'.err \in {"ok", "TransferFailed"}
          /\ (~paused /\ (currentRound.id = 0 \/ currentRound.resolved))
                => last'.err = "NoActiveRound"
          /\ (~paused /\ currentRound.id > 0 /\ ~currentRound.resolved
                 /\ currentRound.startedAt > 0 /\ now >= currentRound.endTime)
                => last'.err = "RoundEnded"
          /\ last'.err # "ok" => UNCHANGED <<now, storage>>]_vars

\* C19 witness: a running round was funded during its anti-snipe extension,
\* past the end it would have had without it.
C19_Witness ==
    /\ Resolved("fund")
    /\ configCalls = 0
    /\ now >= currentRound.startedAt + roundDuration
    /\ now < currentRound.endTime
    /\ currentRound.prizePool > last.args.amount

\* C20: a bid is accepted only while the current round exists, is
\* unresolved and is pending or has now < endTime; a bid with no round is
\* rejected with NoActiveRound, on a resolved round with RoundAlreadyResolved,
\* and every bid at now >= endTime of a started round with RoundNotActive,
\* endTime including every anti-snipe extension; the rejected bid changes
\* nothing.
C20_BidOnlyOnOpenRound ==
    [][last'.op = "bid" =>
          /\ last'.err = "ok" => RoundIsOpen
          /\ ~RoundIsOpen =>
                /\ last'.err = (IF currentRound.id = 0 THEN "NoActiveRound"
                                ELSE IF currentRound.resolved
                                     THEN "RoundAlreadyResolved"
                                ELSE "RoundNotActive")
                /\ UNCHANGED <<now, storage>>
          /\ last'.err \in {"NoActiveRound", "RoundAlreadyResolved", "RoundNotActive"}
                => ~RoundIsOpen]_vars

\* C20 witness: a bid was rejected after the end of a round that an
\* anti-snipe extension had prolonged.
C20_Witness ==
    /\ last.op = "bid"
    /\ last.err = "RoundNotActive"
    /\ configCalls = 0
    /\ currentRound.endTime
          = currentRound.startedAt + roundDuration + ANTI_SNIPE_EXTENSION
    /\ now >= currentRound.endTime

\* the round timers over one step: a round is created with both at 0 and
\* keeps them until its first accepted bid, which sets startedAt = now and
\* endTime = firstEnd; from then on startedAt is fixed and endTime only grows
ClockLifecycle(firstEnd) ==
    /\ currentRound'.id # currentRound.id
          => (currentRound'.startedAt = 0 /\ currentRound'.endTime = 0)
    /\ (currentRound'.id = currentRound.id /\ currentRound.startedAt = 0)
          => IF AcceptedBid'
             THEN currentRound'.startedAt = now /\ currentRound'.endTime = firstEnd
             ELSE currentRound'.startedAt = 0 /\ currentRound'.endTime = 0
    /\ (currentRound'.id = currentRound.id /\ currentRound.startedAt > 0)
          => /\ currentRound'.startedAt = currentRound.startedAt
             /\ currentRound'.endTime >= currentRound.endTime

\* C21 as stated: a created round has startedAt = 0 and endTime = 0 until its
\* first accepted bid, which sets startedAt = now and endTime = now +
\* roundDuration; then startedAt never changes and endTime never decreases.
C21_FirstBidEndsAfterDuration ==
    [][ClockLifecycle(now + roundDuration)]_vars

\* C21 amended: a created round has startedAt = 0 and endTime = 0 until its
\* first accepted bid, which sets startedAt = now and endTime = now +
\* roundDuration, plus 60 when roundDuration <= 60 (the anti-snipe step of that
\* same bid); then startedAt never changes and endTime never decreases.
C21_FirstBidStartsClock ==
    [][ClockLifecycle(now + roundDuration
                      + (IF roundDuration <= ANTI_SNIPE_WINDOW
                         THEN ANTI_SNIPE_EXTENSION ELSE 0))]_vars

\* C21 witness: the first bid of round 2, which the solo refund of round 1
\* had created from the carried pool of exactly 1000000, started its clock with
\* a duration of 60 and an end 120 later.
C21_Witness ==
    /\ AcceptedBid
    /\ currentRound.id = 2
    /\ usdcBalance = MIN_AUTO_START + last.args.amount
    /\ currentRound.startedAt = now
    /\ roundDuration = ANTI_SNIPE_WINDOW
    /\ currentRound.endTime = now + roundDuration + ANTI_SNIPE_EXTENSION

\* C22: every accepted bid of amount a adds floor(a * splitBps / 10000), with
\* the splitBps of the time of the bid, to the prizePool of the current round
\* and a minus that to nextPrizePool; the two increases sum to a.
C22_BidSplitsExactly ==
    [][AcceptedBid' =>
          LET a == last'.args.amount
              toCurrent == (a * splitBps) \div BPS_DENOMINATOR
          IN  /\ currentRound'.prizePool = currentRound.prizePool + toCurrent
              /\ nextPrizePool' = nextPrizePool + (a - toCurrent)
              /\ (currentRound'.prizePool - currentRound.prizePool)
                    + (nextPrizePool' - nextPrizePool) = a
              /\ usdcBalance' = usdcBalance + a]_vars

\* C22 witness: with a seed of 100 and a split of 50%, a single bid of 7 left
\* 103 in the pool of the round and 4 in the pool of the next.
C22_Witness ==
    /\ AcceptedBid
    /\ bidCount = 1
    /\ last.args.amount = 7
    /\ splitBps = 5000
    /\ currentRound.prizePool = 103
    /\ nextPrizePool = 4

\* the bids x then y of p on slot i with word w from the present state, the
\* second one at time t2, and the single bid of x + y
BidThen(p, i, w, x, y, t2) ==
    LET first == bid(S, now, p, i, w, x, TRUE)
    IN  <<first, bid(first.s, t2, p, i, w, y, TRUE)>>

BidOnce(p, i, w, x, y) == bid(S, now, p, i, w, x + y, TRUE)

\* the well-formed bids of the ledger, as <<participant, slot, word>> and amounts
LedgerTargets == {<<c.sender, c.slot, c.word>> : c \in {b \in LedgerBids : b.ok}}
LedgerAmounts == {1, 2}

\* C23: from every reachable state, for every participant, slot and word, if
\* the bids X then Y on that slot are both accepted, the second right away or a
\* minute later with no other call between, then the single bid of X + Y is
\* accepted too and leaves the same cumulative total of the participant on the
\* slot, the same totalSpent and the same owner, word and highestTotal of every
\* slot, and the same slot counts.
C23_TwoBidsAsOne ==
    currentRound.id \in RoundIds =>
       \A c \in LedgerTargets, x \in LedgerAmounts, y \in LedgerAmounts,
          t2 \in {now, now + ANTI_SNIPE_WINDOW} :
          LET two == BidThen(c[1], c[2], c[3], x, y, t2)
              one == BidOnce(c[1], c[2], c[3], x, y)
              id == currentRound.id
          IN  (two[1].err = "ok" /\ two[2].err = "ok") =>
                 /\ one.err = "ok"
                 /\ one.s.cumulativeBids = two[2].s.cumulativeBids
                 /\ one.s.cumulativeBids[id][c[2]][c[1]]
                       = cumulativeBids[id][c[2]][c[1]] + x + y
                 /\ one.s.totalSpent = two[2].s.totalSpent
                 /\ one.s.slots = two[2].s.slots
                 /\ one.s.playerSlotCount = two[2].s.playerSlotCount

\* C23 witness: a state from which two bids can still be made, where the
\* other participant holds a slot that the first of two bids does not take, the
\* second does and the single bid of their sum does.
C23_Witness ==
    /\ currentRound.id \in RoundIds
    /\ bidCount + 2 <= MaxBids
    /\ \E c \in LedgerTargets, x \in LedgerAmounts, y \in LedgerAmounts :
          LET two == BidThen(c[1], c[2], c[3], x, y, now)
              one == BidOnce(c[1], c[2], c[3], x, y)
          IN  /\ two[1].err = "ok" /\ two[2].err = "ok"
              /\ slots[c[2]].owner \notin {c[1], ZERO}
              /\ two[1].s.slots[c[2]] = slots[c[2]]
              /\ two[2].s.slots[c[2]].owner = c[1]
              /\ one.s.slots[c[2]].owner = c[1]

\* the records keyed by round id r
RoundRecords(r) ==
    <<cumulativeBids[r], totalSpent[r], playerSlotCount[r], roundPlayers[r], isPlayer[r]>>

\* C24: a round that has been resolved stays resolved; while it is the
\* current round every bid, fund and resolution call is rejected and changes
\* nothing; and the records keyed by the id of a resolved round (cumulativeBids,
\* totalSpent, playerSlotCount, the player list) are changed by no later step,
\* the bids and resolutions of later rounds included.
C24_ResolvedRoundIsFinal ==
    [][/\ currentRound.resolved =>
             /\ resolutions[currentRound.id] = 1
             /\ currentRound'.id = currentRound.id => currentRound' = currentRound
             /\ last'.op \in ResolutionOps \cup {"bid", "fund"}
                   => (last'.err # "ok" /\ NothingPaid(last')
                         /\ UNCHANGED <<now, storage>>)
       /\ \A r \in RoundIds :
             /\ r < currentRound.id => resolutions[r] = 1
             /\ resolutions[r] > 0
                   => /\ RoundRecords(r)' = RoundRecords(r)
                      /\ r < currentRound.id \/ currentRound.resolved]_vars

\* C24 witness: a participant of the resolved round 1, who held a slot in
\* it, had a bid accepted in round 2.
C24_Witness ==
    /\ AcceptedBid
    /\ currentRound.id = 2
    /\ resolutions[1] = 1
    /\ totalSpent[1][last.sender] > 0
    /\ playerSlotCount[1][last.sender] > 0
    /\ totalSpent[2][last.sender] > 0

\* round r has no record yet
Unused(r) ==
    /\ \A i \in SlotIds, p \in Players : cumulativeBids[r][i][p] = 0
    /\ \A p \in Players : totalSpent[r][p] = 0 /\ playerSlotCount[r][p] = 0
    /\ roundPlayers[r] = <<>> /\ isPlayer[r] = {}
    /\ resolutions[r] = 0

\* C25: the current round id is 0 at first; every step leaves it or adds 1
\* to it; it changes exactly in the round creations, a successful startRound or
\* the auto-advance of a successful resolution, and the id of the new round has
\* never been used: it is above every id used before and has no record.
C25_RoundIdCountsUp ==
    /\ currentRound.id = 0
    /\ [][/\ currentRound'.id \in {currentRound.id, currentRound.id + 1}
          /\ (last'.op = "startRound" /\ last'.err = "ok")
                => currentRound'.id = currentRound.id + 1
          /\ currentRound'.id # currentRound.id
                => /\ last'.err = "ok"
                   /\ last'.op \in ResolutionOps \cup {"startRound"}
                   /\ last'.op \in ResolutionOps
                         => currentRound'.prizePool >= MIN_AUTO_START
                   /\ currentRound'.createdAt = now
                   /\ ~currentRound'.resolved
                   /\ \A r \in RoundIds : r >= currentRound'.id => Unused(r)']_vars

\* C25 witness: round 3 was created by the auto-advance of the resolution
\* of round 2, itself created by the resolution of round 1.
C25_Witness ==
    /\ SuccessfulResolution
    /\ currentRound.id = 3
    /\ currentRound.startedAt = 0
    /\ resolutions[1] = 1 /\ resolutions[2] = 1
    /\ \E p \in Players : totalSpent[1][p] > 0 /\ totalSpent[2][p] > 0

\* the slot counts of the current round are the numbers of slots owned
CountsAreOwned ==
    currentRound.id \in RoundIds =>
       \A p \in Players : playerSlotCount[currentRound.id][p] = Owned(p)

\* C26: in every reachable state playerSlotCount[currentRound][p] is the
\* number of slots whose owner is p; an accepted bid that takes a slot from
\* another participant adds 1 to the count of the bidder and subtracts 1 from
\* the count of the previous owner, one that takes a free slot only adds 1, and
\* a bid on a slot the bidder owns, or one that takes nothing, changes no count.
C26_SlotCountIsOwnedSlots ==
    /\ CountsAreOwned
    /\ [][/\ CountsAreOwned'
          /\ AcceptedBid' =>
                LET id == currentRound.id
                    i == last'.args.slot
                    p == last'.sender
                    q == slots[i].owner
                    takes == slots'[i].owner = p /\ q # p
                IN  \A a \in Players :
                       playerSlotCount'[id][a] =
                          playerSlotCount[id][a]
                          + (IF takes /\ a = p THEN 1 ELSE 0)
                          - (IF takes /\ a = q THEN 1 ELSE 0)
          /\ (~AcceptedBid' /\ currentRound.id \in RoundIds)
                => playerSlotCount'[currentRound.id] = playerSlotCount[currentRound.id]]_vars

\* C26 witness: with its first bid on a slot, a participant who held
\* another slot took the only slot of the other participant, who is left with
\* none.
C26_Witness ==
    /\ AcceptedBid
    /\ LET id == currentRound.id
           i == last.args.slot
           p == last.sender
       IN  /\ slots[i].owner = p
           /\ cumulativeBids[id][i][p] = last.args.amount
           /\ playerSlotCount[id][p] = 2
           /\ \E q \in Players \ {p} :
                 /\ cumulativeBids[id][i][q] > 0
                 /\ playerSlotCount[id][q] = 0

\* C27: in every reachable state and for every slot of the current round,
\* highestTotal is the greatest cumulativeBids[round][slot][p] over the
\* participants p (none exceeds it and one reaches it), and the cumulative bid
\* of the slot's owner, if it has one, is highestTotal.
C27_HighestTotalIsMaximum ==
    currentRound.id \in RoundIds =>
       \A i \in SlotIds :
          LET cum == cumulativeBids[currentRound.id][i]
          IN  /\ \A p \in Players : cum[p] <= slots[i].highestTotal
              /\ \E p \in Players : cum[p] = slots[i].highestTotal
              /\ slots[i].owner # ZERO
                    => /\ slots[i].owner \in Players
                       /\ cum[slots[i].owner] = slots[i].highestTotal

\* C27 witness: a participant took a slot back with a cumulative total
\* above the total of the other participant, who had taken it in between.
C27_Witness ==
    /\ AcceptedBid
    /\ LET i == last.args.slot
           p == last.sender
           cum == cumulativeBids[currentRound.id][i]
       IN  /\ slots[i].owner = p
           /\ slots[i].highestTotal = cum[p]
           /\ cum[p] > last.args.amount
           /\ \E q \in Players \ {p} :
                 cum[q] < cum[p] /\ cum[q] > cum[p] - last.args.amount

\* the sum over the 12 slots of p's cumulative bids in round r
SpentOnSlots(r, p) ==
    LET cum == cumulativeBids[r]
        slotSum[n \in 0..NUM_SLOTS] == IF n = 0 THEN 0 ELSE slotSum[n - 1] + cum[n - 1][p]
    IN  slotSum[NUM_SLOTS]

SpentIsSumOfSlots ==
    \A r \in RoundIds, p \in Players : totalSpent[r][p] = SpentOnSlots(r, p)

\* C28: in every reachable state, for every round r and participant p,
\* totalSpent[r][p] is the sum over the 12 slots of cumulativeBids[r][slot][p];
\* no step decreases totalSpent[r][p] or any cumulativeBids[r][slot][p].
C28_TotalSpentIsSumOfSlots ==
    /\ SpentIsSumOfSlots
    /\ [][/\ SpentIsSumOfSlots'
          /\ \A r \in RoundIds, p \in Players :
                /\ totalSpent'[r][p] >= totalSpent[r][p]
                /\ \A i \in SlotIds :
                      cumulativeBids'[r][i][p] >= cumulativeBids[r][i][p]]_vars

\* C28 witness: a participant who had spent in round 1 has bid on two
\* slots of round 2.
C28_Witness ==
    /\ AcceptedBid
    /\ currentRound.id = 2
    /\ totalSpent[1][last.sender] > 0
    /\ cumulativeBids[2][0][last.sender] > 0
    /\ cumulativeBids[2][1][last.sender] > 0
    /\ totalSpent[2][last.sender]
          = cumulativeBids[2][0][last.sender] + cumulativeBids[2][1][last.sender]

\* the entries of the player list of round r
Listed(r) == {roundPlayers[r][k] : k \in 1..Len(roundPlayers[r])}

\* every list holds the addresses that have spent in its round, once each
ListsAreBidders ==
    \A r \in RoundIds :
       /\ Cardinality(Listed(r)) = Len(roundPlayers[r])
       /\ Listed(r) = {p \in Players : totalSpent[r][p] > 0}
       /\ Listed(r) = isPlayer[r]

\* C29: the player list of every round holds exactly the addresses that had
\* a bid accepted in it, once each: an accepted bid appends its bidder to the end
\* of the list of the current round if the bidder is not in it and leaves the
\* list alone otherwise, whatever the slot, and nothing else changes a list.
C29_PlayerListInFirstBidOrder ==
    /\ ListsAreBidders
    /\ [][/\ ListsAreBidders'
          /\ \A r \in RoundIds :
                roundPlayers'[r] =
                   IF AcceptedBid' /\ r = currentRound.id /\ last'.sender \notin Listed(r)
                   THEN Append(roundPlayers[r], last'.sender)
                   ELSE roundPlayers[r]]_vars

\* C29 witness: the participant listed first, ahead of the other one, bid
\* again, on a second slot, and the list still holds the two.
C29_Witness ==
    /\ AcceptedBid
    /\ LET id == currentRound.id
           p == last.sender
       IN  /\ Len(roundPlayers[id]) = 2
           /\ roundPlayers[id][1] = p
           /\ roundPlayers[id][2] # p
           /\ cumulativeBids[id][last.args.slot][p] = last.args.amount
           /\ totalSpent[id][p] > last.args.amount

\* the six parameters of the owner, and the storage that is none of them
Parameters ==
    [setMinBid |-> minBid, setRoundDuration |-> roundDuration, setRake |-> rakeBps,
     setSplit |-> splitBps, setMaxSlotsPerPlayer |-> maxSlotsPerPlayer,
     setOracle |-> oracleAddress]

Setters == DOMAIN Parameters

storageButParameters ==
    <<paused, accumulatedRake, nextPrizePool, pendingEth, currentRound, slots,
      cumulativeBids, totalSpent, playerSlotCount, roundPlayers, isPlayer,
      unclaimedEth, usdcBalance, ethBalance>>

\* the error of setter op called by sender with value v
SetterError(op, sender, v) ==
    IF sender # OWNER THEN "OwnableUnauthorizedAccount"
    ELSE IF op = "setRake" /\ v > MAX_RAKE_BPS THEN "RakeTooHigh"
    ELSE IF op = "setSplit" /\ v > BPS_DENOMINATOR THEN "SplitTooHigh"
    ELSE IF op = "setMaxSlotsPerPlayer" /\ (v = 0 \/ v > NUM_SLOTS) THEN "InvalidSlotCap"
    ELSE "ok"

\* C30: a configuration call of the owner with a value in range sets the
\* parameter it names to that value and changes nothing else: no other
\* parameter, no round, slot, bid, participant or pool state, so not the endTime
\* of a running round either; a call of anyone else, or with a value out of
\* range, changes nothing.  Every later bid and resolution reads the values then
\* in storage: the bid is rejected with BidTooLow exactly below minBid, splits by
\* splitBps, takes a slot only below maxSlotsPerPlayer; resolveRound admits
\* exactly oracleAddress and charges prizePool * rakeBps / 10000.
C30_SettersChangeOneParameter ==
    [][/\ last'.op \in Setters =>
             LET op == last'.op
                 v == IF op = "setOracle" THEN last'.args.oracle ELSE last'.args.amount
             IN  /\ last'.sender = OWNER => last'.err = SetterError(op, OWNER, v)
                 /\ last'.sender # OWNER => last'.err = "OwnableUnauthorizedAccount"
                 /\ UNCHANGED <<now, storageButParameters>>
                 /\ Parameters' = IF last'.err = "ok"
                                  THEN [Parameters EXCEPT ![op] = v]
                                  ELSE Parameters
       /\ (last'.op = "bid" /\ RoundIsOpen) =>
             LET id == currentRound.id
                 p == last'.sender
                 i == last'.args.slot
                 a == last'.args.amount
             IN  /\ last'.err = "BidTooLow" <=> a < minBid
                 /\ last'.err = "SlotCapReached"
                       => playerSlotCount[id][p] >= maxSlotsPerPlayer
                 /\ (last'.err = "ok" /\ slots'[i].owner # slots[i].owner)
                       => playerSlotCount[id][p] < maxSlotsPerPlayer
                 /\ last'.err = "ok"
                       => currentRound'.prizePool
                             = currentRound.prizePool + (a * splitBps) \div BPS_DENOMINATOR
       /\ last'.op = "resolveRound" =>
             /\ last'.err = "NotOracle" <=> last'.sender # oracleAddress
             /\ last'.err = "ok"
                   => /\ last'.fee = Rake(currentRound.prizePool, rakeBps)
                      /\ accumulatedRake' = accumulatedRake + last'.fee]_vars

\* C30 witness: in a running round, after setMinBid(8), a bid of 7 by a
\* participant whose bid of 7 the round had accepted before was rejected with
\* BidTooLow, the round and every other parameter being as they were.
C30_Witness ==
    /\ last.op = "bid"
    /\ last.err = "BidTooLow"
    /\ last.args.amount < minBid
    /\ totalSpent[currentRound.id][last.sender] = last.args.amount
    /\ configCalls = 1
    /\ currentRound.startedAt > 0
    /\ now < currentRound.endTime
    /\ currentRound.endTime = currentRound.startedAt + roundDuration

\* ─── C31 ────────────────────────────────────────────────────────────────

HasSpace(w) == \E i \in 1..Len(w) : w[i] = 32

\* C31: a bid that passes the checks made before the word is looked at (round
\* open, not paused, valid slot, amount >= minBid) is rejected with WordEmpty
\* exactly when its word is empty, with WordTooLong exactly when it is longer
\* than 22 bytes, with WordContainsSpace exactly when it has 1 to 22 bytes one
\* of which is 0x20, and is accepted exactly when it has 1 to 22 bytes none of
\* which is 0x20, whatever the other bytes are; the accepted word is stored
\* byte for byte.
C31_WordAcceptedIffValid ==
    [][(/\ last'.op = "bid"
        /\ last'.err \notin ModifierErrors
        /\ last'.args.slot < NUM_SLOTS
        /\ last'.args.amount >= minBid) =>
          LET w == last'.args.word
          IN  /\ last'.err = "WordEmpty" <=> Len(w) = 0
              /\ last'.err = "WordTooLong" <=> Len(w) > 22
              /\ last'.err = "WordContainsSpace" <=> (Len(w) \in 1..22 /\ HasSpace(w))
              /\ last'.err = "ok" <=> (Len(w) \in 1..22 /\ ~HasSpace(w))
              /\ last'.err = "ok" => slots'[last'.args.slot].word = w]_vars

\* C31 witness: a word of 22 bytes that ends in a space was rejected with
\* WordContainsSpace, the slot still holding the tab that was accepted before.
C31_Witness ==
    /\ last.op = "bid"
    /\ last.err = "WordContainsSpace"
    /\ Len(last.args.word) = MAX_WORD_LENGTH
    /\ slots[0].word = <<9>>
    /\ slots[0].owner = "A"

\* ─── C32 ────────────────────────────────────────────────────────────────

\* C32: immediately after every accepted bid the round has at least one full
\* minute left, endTime - now >= 60, whatever roundDuration is and however
\* many times the round was extended before.
C32_AcceptedBidLeavesFullMinute ==
    [][(last'.op = "bid" /\ last'.err = "ok") =>
          /\ currentRound'.endTime - now' >= 60
          /\ currentRound'.endTime >= currentRound.endTime]_vars

\* C32 witness: with roundDuration 30 the three accepted bids of a round each
\* extended it (the first one included), the last leaving exactly 120 seconds.
C32_Witness ==
    /\ AcceptedBid
    /\ bidCount = 3
    /\ currentRound.id = 1
    /\ roundDuration = 30
    /\ currentRound.endTime = currentRound.startedAt + roundDuration + 3 * ANTI_SNIPE_EXTENSION
    /\ currentRound.endTime - now = 2 * ANTI_SNIPE_EXTENSION

\* ─── C33 ────────────────────────────────────────────────────────────────

\* the USDC the contract accounts for
TrackedUsdc ==
    (IF currentRound.id > 0 /\ ~currentRound.resolved THEN currentRound.prizePool ELSE 0)
    + nextPrizePool + accumulatedRake

\* the USDC a step brings in: the top-up of an accepted startRound, the
\* amount of an accepted fund or bid
UsdcIn(l) ==
    IF l.op \in {"startRound", "fund", "bid"} /\ l.err = "ok" THEN l.args.amount ELSE 0

\* C33: in every reachable state the USDC the contract holds equals the
\* prizePool of the current round if it is unresolved, plus nextPrizePool,
\* plus accumulatedRake; and the holding changes in a step by exactly the
\* deposit the step takes minus the payouts, refunds and rake it transfers.
C33_UsdcHeldIsTracked ==
    /\ [](usdcBalance = TrackedUsdc)
    /\ [][usdcBalance' = usdcBalance + UsdcIn(last') - SumPay(last'.usdcOut)]_vars

\* C33 witness: a bid was accepted in round 2 while the fee of round 1 is
\* not yet withdrawn: the three pools are all positive.
C33_Witness ==
    /\ AcceptedBid
    /\ currentRound.id = 2
    /\ ~currentRound.resolved
    /\ currentRound.prizePool > 0
    /\ nextPrizePool > 0
    /\ accumulatedRake > 0
    /\ usdcBalance = currentRound.prizePool + nextPrizePool + accumulatedRake

\* ─── C34 ────────────────────────────────────────────────────────────────

\* what the USDC token may be doing: refusing no recipient, or refusing A
Refusals == {{}, {"A"}}

\* some resolution call succeeds now while the token refuses `usdcFail`
SomeResolutionSucceeds(usdcFail) ==
    \/ refundSoloRound(S, now, "B", usdcFail).err = "ok"
    \/ emergencyResolve(S, now, OWNER, usdcFail, {}).err = "ok"
    \/ \E winners \in {<<"B">>, <<"A", "B">>} :
          \E usdcAmounts \in AllocChoices(Len(winners),
                                currentRound.prizePool
                                   - Rake(currentRound.prizePool, rakeBps)),
             ethAmounts \in AllocChoices(Len(winners), currentRound.ethPrizePool)
                               \cup {<<>>} :
             resolveRound(S, now, oracleAddress, winners, usdcAmounts, ethAmounts,
                          usdcFail, {}).err = "ok"

\* C34 as stated: whenever the current round is ended and unresolved, at
\* least one resolution call is enabled (refundSoloRound for a round with
\* fewer than 2 participants, otherwise resolveRound by the oracle with some
\* allocation, or emergencyResolve by the owner), so that the round can
\* always be resolved.
C34_EndedRoundCanBeResolved ==
    RoundStatus = "ok" => \A usdcFail \in Refusals : SomeResolutionSucceeds(usdcFail)

\* C34 witness: the refund of an ended round with one participant was
\* rejected because the token refuses the participant, and no other
\* resolution call succeeds either: the round stays ended and unresolved.
C34_Witness ==
    /\ last.op = "refundSoloRound"
    /\ last.err = "TransferFailed"
    /\ RoundStatus = "ok"
    /\ Participants = {"A"}
    /\ ~SomeResolutionSucceeds({"A"})
    /\ ~EmergencyReady(S, now) \/ emergencyResolve(S, now, OWNER, {"A"}, {}).err = "TransferFailed"

\* ─── C35 ────────────────────────────────────────────────────────────────

\* the step is a successful resolution of a round with 2 or more participants
FeeStep ==
    /\ last'.op \in {"resolveRound", "emergencyResolve"}
    /\ last'.err = "ok"
    /\ Cardinality(Participants) >= 2

\* C35: accumulatedRake increases only in a successful resolveRound or a
\* successful emergencyResolve of a round with 2 or more participants, by
\* exactly floor(prizePool * rakeBps / 10000) with the rakeBps of that moment;
\* a rejected resolution, a solo refund and every other operation leave it as
\* it is, except withdrawRake, which on success sets it to 0 and transfers
\* exactly the amount it held to the owner.
C35_FeeChargedOncePerResolution ==
    [][/\ FeeStep =>
             /\ accumulatedRake' = accumulatedRake + last'.fee
             /\ last'.fee = Rake(currentRound.prizePool, rakeBps)
             /\ currentRound.prizePool <= MIN_AUTO_START
                   => last'.fee = (currentRound.prizePool * rakeBps) \div 10000
             /\ resolutions'[currentRound.id] = 1
       /\ (last'.op = "withdrawRake" /\ last'.err = "ok") =>
             /\ accumulatedRake' = 0
             /\ last'.usdcOut = [NoPay EXCEPT ![OWNER] = accumulatedRake]
             /\ usdcBalance' = usdcBalance - accumulatedRake
       /\ (~FeeStep /\ ~(last'.op = "withdrawRake" /\ last'.err = "ok")) =>
             /\ accumulatedRake' = accumulatedRake
             /\ last'.fee = 0]_vars

\* C35 witness: the owner withdrew the fee of a resolved round, a fee that is
\* the quotient rounded down (the product prizePool * rakeBps is no multiple
\* of 10000), and the counter is back to 0.
C35_Witness ==
    /\ last.op = "withdrawRake"
    /\ last.err = "ok"
    /\ accumulatedRake = 0
    /\ currentRound.resolved
    /\ resolutions[currentRound.id] = 1
    /\ Cardinality(Participants) = 2
    /\ currentRound.prizePool <= MIN_AUTO_START
    /\ (currentRound.prizePool * rakeBps) % 10000 # 0
    /\ last.usdcOut[OWNER] = (currentRound.prizePool * rakeBps) \div 10000
    /\ last.usdcOut[OWNER] > 0

\* ─── C36 ────────────────────────────────────────────────────────────────

\* what a resolution of the current round distributes, and to whom
Distributed ==
    [prizePool |-> currentRound.prizePool,
     ethPrizePool |-> currentRound.ethPrizePool,
     players |-> roundPlayers[currentRound.id],
     totalSpent |-> totalSpent[currentRound.id]]

\* C36 as stated: once the current round is ended and not yet resolved, no
\* step other than a successful resolution changes its prizePool, its
\* ethPrizePool, its player list or any totalSpent: bids and fund are
\* rejected, and ETH sent to the contract is not added to the ended round.
C36_EndedRoundIsFrozen ==
    [][(RoundStatus = "ok" /\ ~SuccessfulResolution') => Distributed' = Distributed]_vars

\* C36 witness: ETH sent to the contract after the round of two participants
\* had ended was added to the pool of that round, which is still unresolved.
C36_Witness ==
    /\ last.op = "receive"
    /\ last.err = "ok"
    /\ RoundStatus = "ok"
    /\ Cardinality(Participants) = 2
    /\ currentRound.ethPrizePool = last.args.amount
    /\ currentRound.ethPrizePool > 0
    /\ pendingEth = 0

\* ─── C37 ────────────────────────────────────────────────────────────────

\* the ETH the contract owes: the pool of the unresolved current round, the
\* pending pool and everything parked for a recipient
EthOwed ==
    (IF currentRound.id > 0 /\ ~currentRound.resolved THEN currentRound.ethPrizePool ELSE 0)
    + pendingEth + SumPay(unclaimedEth)

\* C37 as stated: in every reachable state, calls of rescueEth included, the
\* ETH balance of the contract is at least the ethPrizePool of the unresolved
\* current round plus pendingEth plus the sum of all unclaimedEth, so that
\* every recipient of a parked amount can withdraw it through claimEth.
C37_EthBalanceCoversCommitments ==
    /\ ethBalance >= EthOwed
    /\ \A a \in Accounts : unclaimedEth[a] > 0 => claimEth(S, a, {}).err = "ok"

\* C37 witness: a recipient's claimEth failed because the contract no longer
\* holds the amount parked for it.
C37_Witness ==
    /\ last.op = "claimEth"
    /\ last.err = "ETH transfer failed"
    /\ unclaimedEth[last.sender] > ethBalance
    /\ claimEth(S, last.sender, {}).err = "ETH transfer failed"

\* ─── C38 ────────────────────────────────────────────────────────────────

\* the round takes bids: it exists, is unresolved, and is pending or running
TakesBids ==
    /\ currentRound.id > 0
    /\ ~currentRound.resolved
    /\ currentRound.startedAt = 0 \/ now < currentRound.endTime

\* the round can be resolved: it exists, is unresolved, started and at its end
TakesResolution ==
    /\ currentRound.id > 0
    /\ ~currentRound.resolved
    /\ currentRound.startedAt > 0
    /\ now >= currentRound.endTime

SomeBidSucceeds ==
    \E c \in ClockBids : bid(S, now, c.sender, c.slot, c.word, c.amount, TRUE).err = "ok"

FundSucceeds == fund(S, now, "A", 5, TRUE).err = "ok"

\* C38: in every reachable state and at every time, a bid or a fund call can
\* be accepted only if the round is pending or now < endTime, and then every
\* resolution path is rejected; a resolution path can succeed only if
\* startedAt > 0, now >= endTime and the round is unresolved, and then every
\* bid is rejected with RoundNotActive and every fund with RoundEnded, also
\* exactly at now = endTime.
C38_BiddingAndResolutionExclusive ==
    /\ (SomeBidSucceeds \/ FundSucceeds) => TakesBids
    /\ TakesBids =>
          /\ ~SomeResolutionSucceeds({})
          /\ RoundStatus \in {"RoundNotStarted", "RoundStillActive"}
    /\ SomeResolutionSucceeds({}) => TakesResolution
    /\ TakesResolution =>
          /\ ~SomeBidSucceeds
          /\ ~FundSucceeds
          /\ \A c \in ClockBids :
                bid(S, now, c.sender, c.slot, c.word, c.amount, TRUE).err = "RoundNotActive"
          /\ fund(S, now, "A", 5, TRUE).err = "RoundEnded"

\* C38 witness: exactly at now = endTime a bid was rejected with
\* RoundNotActive, and the oracle's resolveRound can succeed.
C38_Witness ==
    /\ last.op = "bid"
    /\ last.err = "RoundNotActive"
    /\ now = currentRound.endTime
    /\ TakesResolution
    /\ ResolveCanSucceed
    /\ ~FundSucceeds

\* ─── C39 ────────────────────────────────────────────────────────────────

\* C39: in every reachable state the current round has startedAt > 0 exactly
\* when its player list is non-empty, so an ended round has at least one
\* participant; and a successful refundSoloRound, or emergencyResolve of a
\* round with fewer than 2 participants, always finds exactly one participant:
\* the branches for an empty player list are never executed.
C39_StartedIffHasPlayers ==
    /\ [](/\ currentRound.id = 0 => currentRound.startedAt = 0
          /\ currentRound.id > 0 =>
                (currentRound.startedAt > 0 <=> Len(roundPlayers[currentRound.id]) > 0)
          /\ RoundStatus = "ok" => Cardinality(Participants) >= 1)
    /\ [][(/\ last'.op \in {"refundSoloRound", "emergencyResolve"}
           /\ last'.err = "ok"
           /\ Cardinality(Participants) < 2)
              => Len(roundPlayers[currentRound.id]) = 1]_vars

\* C39 witness: the owner's emergencyResolve refunded an ended round through
\* _emergencySoloRefund, and the round had exactly one participant.
C39_Witness ==
    /\ last.op = "emergencyResolve"
    /\ last.err = "ok"
    /\ currentRound.resolved
    /\ currentRound.startedAt > 0
    /\ roundPlayers[currentRound.id] = <<"A">>
    /\ last.usdcOut["A"] = totalSpent[currentRound.id]["A"]
    /\ last.fee = 0

=============================================================================
